---- MODULE Spec2Model ----
(***************************************************************************)
(* Task list manager of the matching service                               *)
(* (service/matching/taskListManager.go).                                  *)
(*                                                                         *)
(* Two manager instances (two processes) share one persistent task store   *)
(* for the same partition.  Each manager owns a lease adapter (db), a task *)
(* writer, a task reader with its ack manager, and a task GC.  The manager *)
(* itself (Start, Stop, AddTask, completeTask, renewLeaseWithRetry,        *)
(* rangeIDToTaskIDBlock, allocTaskIDBlock, executeWithRetry, trySyncMatch) *)
(* is translated from taskListManager.go; its collaborators (task store,   *)
(* lease adapter, task writer, ack manager, task reader, task GC, matcher, *)
(* engine registry, internal task) are not part of the sources at hand and *)
(* are modelled from the design document.                                  *)
(***************************************************************************)
EXTENDS Integers, Sequences, FiniteSets, TLC

\* ------------------------------------------------------------------ bounds
\* config.RangeSize: task IDs per lease block (a configuration value).
RangeSize == 2
\* Number of environment events over a whole run: AddTask calls, transient store
\* failures, failed dispatches (completeTask with a non-nil error) and Stop calls
\* from outside together.
MaxEvents == 3
\* config.LongPollExpirationInterval, in ticks of the clock (a configuration value).
LongPollExpirationInterval == 2
\* The clock stops after MaxTime ticks.
MaxTime == 3
\* Number of GetTask calls over a whole run.
MaxPolls == 2
\* Highest user data version of a run.
MaxVersion == 2

\* ----------------------------------------------------------- program constants
syncMatchTaskId == -137
\* returnEmptyTaskTimeBudget = time.Second: two ticks of half a second.
returnEmptyTaskTimeBudget == 2
\* The degree of the partition tree (ForwarderMaxChildrenPerNode).
ForwarderMaxChildrenPerNode == 3

Managers == {"A", "B"}

NoErr == "nil"
ConditionFailedError == "ConditionFailedError"
TransientError == "TransientError"
errShutdown == "errShutdown"
errRemoteSyncMatchFailed == "remote sync match failed"
errNamespace == "namespace lookup failed"
errInvalidState == "allocTaskIDBlock: invalid state"
errUserDataNoMutateNonRoot == "errUserDataNoMutateNonRoot"
Unavailable == "Unavailable"
Unimplemented == "Unimplemented"

\* The managers of the partition tree, by partition number: the root, two of its
\* children, and a child of partition 1.
UDManagers == {0, 1, 2, 4}


VARIABLES
    \* ---- shared persistent task store
    storeRangeID,   \* rangeID of the partition's row, 0: no row yet
    storeAckLevel,  \* persisted ack level of the row
    storeTasks,     \* durable rows: set of [id, payload]
    \* ---- per manager: lifecycle
    startState,     \* "new" | "ok" | "failed": Start not called / returned nil / returned an error
    stopped,        \* c.stopped (0/1 as a boolean)
    shutdownCh,     \* "open" | "closed"
    running,        \* [writer, reader]: background loops running
    registry,       \* [present, removeCalls]: the engine's registry entry of this manager
    stopCalls,      \* number of Stop calls made on this manager from outside (engine, shutdown)
    \* ---- per manager: lease adapter and writer
    dbRangeID,      \* db.rangeID, 0 before the first lease
    taskIDBlock,    \* writer's block [start, end]
    maxReadLevel,   \* writer's upper bound for the reader
    \* ---- per manager: ack manager and reader buffer
    ackLevel,
    readLevel,
    outstanding,    \* tracked, unacknowledged task IDs
    completed,      \* tracked, acknowledged task IDs above ackLevel
    taskBuffer,     \* backlog tasks read and not yet completed: set of [id, payload]
    \* ---- per manager: the call on the writer path that is in flight
    cur,
    \* ---- observation (history) variables
    lastRet,        \* the call (Start, AddTask, completeTask) that returned last, and its result
    appendLog,      \* the rows [id, payload] this manager appended durably, in order
    ackArgs,        \* task IDs passed to the ack manager
    leaseCF,        \* a lease renewal of this manager failed with ConditionFailedError
    cfStopped,      \* executeWithRetry called Stop on this manager after ConditionFailedError
    dispatched,     \* payloads handed to a poller whose start succeeded
    \* ---- user data managers
    udPartition,    \* the partition each manager is created for
    ud,             \* per manager: loop position, version, readiness, request, last reply
    udUpdate,       \* the UpdateUserData call that returned last, and its result
    nextPayload,
    faults,
    dispatchFails,
    \* ---- poll side of one manager
    now,                  \* the clock, in ticks of half a second
    taskList,             \* what the manager was built for: [isRoot, kind, degreeExceeded]
    forwarder,            \* the matcher was built with a forwarder
    polls,                \* per GetTask call, in flight or returned: position, contexts,
                          \* inputs and result
    outstandingPollsMap,  \* pollerID -> [present, cancel]; cancel 0 is func() {}
    pollCalls,            \* observation: number of GetTask calls made
    \* ---- calls at the start gate, and calls made on the matcher
    gateCalls,            \* per manager: the calls blocked in c.startWG.Wait()
    queryOffers,          \* per manager: number of matcher.OfferQuery calls made
    ratelimit,            \* the rps of the last matcher.UpdateRatelimit call (0: none yet)
    stopStep,             \* per manager: statements run by the Stop call that took effect
    syncCtx,              \* the sync-match attempt of an AddTask call: position, contexts,
                          \* and its clock, in ticks of a tenth of a second
    \* ---- sql workflow store, one workflow ID
    sql                   \* the current-execution row, the run IDs with a snapshot, and the
                          \* CreateWorkflowExecution call that returned last

storeVars == <<storeRangeID, storeAckLevel, storeTasks>>
lifeVars == <<startState, stopped, shutdownCh, running, registry, stopCalls>>
writerVars == <<dbRangeID, taskIDBlock, maxReadLevel>>
ackVars == <<ackLevel, readLevel, outstanding, completed, taskBuffer>>
histVars == <<lastRet, appendLog, ackArgs, leaseCF, cfStopped, dispatched, nextPayload, faults, dispatchFails>>
pollVars == <<now, taskList, forwarder, polls, outstandingPollsMap, pollCalls>>
udVars == <<udPartition, ud, udUpdate>>
callVars == <<gateCalls, queryOffers, ratelimit, stopStep, syncCtx, sql>>
vars == <<storeVars, lifeVars, writerVars, ackVars, cur, histVars, pollVars, udVars, callVars>>

\* ------------------------------------------------------------------ helpers
\* An environment event is still within the run's budget.
StopCallsMade == stopCalls["A"] + stopCalls["B"]

EventLeft == (nextPayload - 1) + faults + dispatchFails + StopCallsMade < MaxEvents

Max(S) == CHOOSE x \in S : \A y \in S : y <= x
Min(S) == CHOOSE x \in S : \A y \in S : x <= y

IdleCall == [op |-> "none", pc |-> "idle", payload |-> 0, taskId |-> 0, newId |-> 0,
             ns |-> "active", fwd |-> FALSE, attempts |-> 0, err |-> NoErr,
             syncMatch |-> FALSE, triedSync |-> FALSE, appended |-> FALSE, sawCF |-> FALSE,
             afterCF |-> FALSE, step |-> 0, rangeID |-> 0, ackLevel |-> 0,
             offerFailed |-> FALSE]

NoRet == [m |-> "none", op |-> "none", payload |-> 0, err |-> NoErr, syncMatch |-> FALSE, triedSync |-> FALSE,
          appended |-> FALSE, signalled |-> FALSE, attempts |-> 0, ns |-> "active",
          fwd |-> FALSE, taskId |-> 0, newId |-> 0, acked |-> FALSE, gc |-> -1,
          afterCF |-> FALSE, prevBlockEnd |-> 0, block |-> [start |-> 0, end |-> 0],
          before |-> [db |-> 0, store |-> 0], after |-> [db |-> 0, store |-> 0],
          offerFailed |-> FALSE]

\* common.IsPersistenceTransientError
IsPersistenceTransientError(err) == err = TransientError

\* ------------------------------------------------- taskListManager.go, pure parts
\* Variant of rangeIDToTaskIDBlock that leaves out the block size in the start.
rangeIDToTaskIDBlock_NoScale(rangeID) ==
    [start |-> rangeID, end |-> rangeID * RangeSize]

\* rangeIDToTaskIDBlock: block of a rangeID.
rangeIDToTaskIDBlock(rangeID) ==
    [start |-> (rangeID - 1) * RangeSize + 1, end |-> rangeID * RangeSize]

\* ---------------------------------------------- persistent task store (external)
\* Outcomes the store can give a lease request of manager m.  A request of an
\* adapter that holds a rangeID is conditional on it; a request of a fresh
\* adapter (rangeID 0) takes the lease over, and can lose the race against
\* another process that updates the row at the same time.
LeaseOutcomes(m) ==
    {o \in {"ok", "cf", "transient"} :
        \/ o = "ok" /\ dbRangeID[m] \in {0, storeRangeID}
        \/ o = "cf" /\ storeRangeID > 0 /\ dbRangeID[m] # storeRangeID
        \/ o = "transient" /\ EventLeft}

\* db.RenewLease: the lease adapter's conditional update of the rangeID.
RenewLease(m, outcome) ==
    CASE outcome = "ok" -> [rangeID |-> storeRangeID + 1, ackLevel |-> storeAckLevel, err |-> NoErr]
      [] outcome = "cf" -> [rangeID |-> 0, ackLevel |-> 0, err |-> ConditionFailedError]
      [] OTHER -> [rangeID |-> 0, ackLevel |-> 0, err |-> TransientError]

\* Outcomes of db.CreateTasks, which is conditional on the adapter's rangeID.
CreateOutcomes(m) ==
    {o \in {"ok", "cf", "transient"} :
        \/ o = "ok" /\ dbRangeID[m] = storeRangeID
        \/ o = "cf" /\ dbRangeID[m] # storeRangeID
        \/ o = "transient" /\ EventLeft}

CreateErr(outcome) ==
    CASE outcome = "ok" -> NoErr
      [] outcome = "cf" -> ConditionFailedError
      [] OTHER -> TransientError

\* ------------------------------------------------------------------ ack manager
\* setAckLevel (init only): seeds the ack level; the read level never lies below it.
ackSetAckLevel(a, level) ==
    [a EXCEPT !.ackLevel = level,
              !.readLevel = IF level > a.readLevel THEN level ELSE a.readLevel]

\* addTask: id > readLevel required; id becomes the read level and is outstanding.
ackAddTask(a, id) ==
    [a EXCEPT !.readLevel = id, !.outstanding = a.outstanding \cup {id}]

\* completeTask: removes id from the outstanding IDs and advances the ack level
\* over the longest prefix of tracked IDs that are all completed.
ackCompleteTask(a, id) ==
    LET out == a.outstanding \ {id}
        done == IF id \in a.outstanding THEN a.completed \cup {id} ELSE a.completed
        passed == {c \in done : \A o \in out : c < o}
        level == IF passed = {} THEN a.ackLevel ELSE Max(passed \cup {a.ackLevel})
    IN [a EXCEPT !.ackLevel = level, !.outstanding = out, !.completed = done \ passed]

AckState(m) ==
    [ackLevel |-> ackLevel[m], readLevel |-> readLevel[m],
     outstanding |-> outstanding[m], completed |-> completed[m]]

SetAckState(m, a) ==
    /\ ackLevel' = [ackLevel EXCEPT ![m] = a.ackLevel]
    /\ readLevel' = [readLevel EXCEPT ![m] = a.readLevel]
    /\ outstanding' = [outstanding EXCEPT ![m] = a.outstanding]
    /\ completed' = [completed EXCEPT ![m] = a.completed]

\* taskGC.Run(ackLevel): a range delete up to the ack level, issued only when the
\* GC's batching conditions are met (fire).
taskGCRun(rows, level, fire) ==
    IF fire THEN {r \in rows : r.id > level} ELSE rows

\* ------------------------------------------------------- taskListManager.go
\* Variant of Stop that removes the manager from the registry first.
StopStatements_RemoveFirst ==
    <<"removeTaskListManager", "removeTaskListManager", "close(shutdownCh)",
      "taskWriter.Stop", "taskReader.Stop">>

\* Variant of Stop that calls engine.removeTaskListManager once.
StopStatements_RemoveOnce ==
    <<"close(shutdownCh)", "taskWriter.Stop", "taskReader.Stop", "removeTaskListManager">>

\* Stop, the statements after the compare-and-swap, in order.
StopStatements ==
    <<"close(shutdownCh)", "taskWriter.Stop", "taskReader.Stop",
      "removeTaskListManager", "removeTaskListManager">>

\* Variant of Stop without the compare-and-swap guard: every call runs the
\* shutdown sequence.
Stop_NoGuard(m) ==
    /\ stopped' = [stopped EXCEPT ![m] = TRUE]
    /\ shutdownCh' = [shutdownCh EXCEPT ![m] = "closed"]
    /\ running' = [running EXCEPT ![m] = [writer |-> FALSE, reader |-> FALSE]]
    /\ registry' = [registry EXCEPT ![m] =
                       [present |-> FALSE, removeCalls |-> @.removeCalls + 2]]

\* Stop: only the call that flips c.stopped runs the shutdown sequence: close the
\* shutdown channel, stop writer and reader, remove the manager from the registry
\* (engine.removeTaskListManager is called twice).
Stop(m) ==
    IF stopped[m]
    THEN UNCHANGED <<stopped, shutdownCh, running, registry>>
    ELSE /\ stopped' = [stopped EXCEPT ![m] = TRUE]
         /\ shutdownCh' = [shutdownCh EXCEPT ![m] = "closed"]
         /\ running' = [running EXCEPT ![m] = [writer |-> FALSE, reader |-> FALSE]]
         /\ registry' = [registry EXCEPT ![m] =
                            [present |-> FALSE, removeCalls |-> @.removeCalls + 2]]

StopIf(m, doStop) ==
    IF doStop THEN Stop(m) ELSE UNCHANGED <<stopped, shutdownCh, running, registry>>

\* Variant of renewLeaseWithRetry that does not unload the task list on an error.
renewLeaseWithRetry_NoUnload(m, outcome) ==
    LET newState == RenewLease(m, outcome)
    IN [state |-> newState, err |-> newState.err, unload |-> FALSE]

\* renewLeaseWithRetry: db.RenewLease under backoff.Retry (outcome is what the
\* retried request ends with); on an error the engine unloads the task list.
renewLeaseWithRetry(m, outcome) ==
    LET newState == RenewLease(m, outcome)
    IN [state |-> newState, err |-> newState.err, unload |-> newState.err # NoErr]

\* The store's and the adapter's side of a lease request made by m.
LeaseEffect(m, r, outcome) ==
    /\ storeRangeID' = IF r.err = NoErr THEN r.state.rangeID ELSE storeRangeID
    /\ dbRangeID' = [dbRangeID EXCEPT ![m] = IF r.err = NoErr THEN r.state.rangeID ELSE @]
    /\ faults' = IF outcome = "transient" THEN faults + 1 ELSE faults
    /\ leaseCF' = [leaseCF EXCEPT ![m] = @ \/ r.err = ConditionFailedError]

\* Variant of allocTaskIDBlock that renews the lease without the check of
\* prevBlockEnd.
allocTaskIDBlock_NoCheck(m, prevBlockEnd, outcome) ==
    LET r == renewLeaseWithRetry(m, outcome)
    IN IF r.err # NoErr
       THEN [block |-> [start |-> 0, end |-> 0], err |-> r.err, renewed |-> TRUE, lease |-> r]
       ELSE [block |-> rangeIDToTaskIDBlock(r.state.rangeID), err |-> NoErr,
             renewed |-> TRUE, lease |-> r]

\* allocTaskIDBlock(prevBlockEnd): checks the current block against prevBlockEnd,
\* renews the lease and returns the block of the new rangeID.
allocTaskIDBlock(m, prevBlockEnd, outcome) ==
    LET currBlock == rangeIDToTaskIDBlock(dbRangeID[m])
        r == renewLeaseWithRetry(m, outcome)
    IN IF currBlock.end # prevBlockEnd
       THEN [block |-> [start |-> 0, end |-> 0], err |-> errInvalidState,
             renewed |-> FALSE, lease |-> r]
       ELSE IF r.err # NoErr
       THEN [block |-> [start |-> 0, end |-> 0], err |-> r.err, renewed |-> TRUE, lease |-> r]
       ELSE [block |-> rangeIDToTaskIDBlock(r.state.rangeID), err |-> NoErr,
             renewed |-> TRUE, lease |-> r]

\* Variant of executeWithRetry that calls Stop on any final error.
executeWithRetry_StopOnError(err, expired) ==
    LET retry == /\ err # NoErr
                 /\ err # ConditionFailedError
                 /\ IsPersistenceTransientError(err)
                 /\ ~expired
    IN [retry |-> retry, stop |-> ~retry /\ err # NoErr]

\* Variant of executeWithRetry that does not call Stop on ConditionFailedError.
executeWithRetry_NoStop(err, expired) ==
    [retry |-> err # NoErr /\ err # ConditionFailedError
               /\ IsPersistenceTransientError(err) /\ ~expired,
     stop |-> FALSE]

\* executeWithRetry: what follows an attempt of the operation that ended with err:
\* retry on a transient error until the retry policy has expired, never on
\* ConditionFailedError; Stop when the final error is ConditionFailedError.
executeWithRetry(err, expired) ==
    LET retry == /\ err # NoErr
                 /\ err # ConditionFailedError
                 /\ IsPersistenceTransientError(err)
                 /\ ~expired
    IN [retry |-> retry, stop |-> ~retry /\ err = ConditionFailedError]

\* Variant of trySyncMatch that builds the task as an ordinary (backlog) task.
trySyncMatch_NotSync(payload) ==
    [id |-> syncMatchTaskId, payload |-> payload, sync |-> FALSE]

\* trySyncMatch: the task offered to the matcher, wrapped with the fake task ID.
trySyncMatch(payload) ==
    [id |-> syncMatchTaskId, payload |-> payload, sync |-> TRUE]

\* Results matcher.Offer can give a sync-match attempt.
OfferOutcomes ==
    {[matched |-> TRUE, err |-> NoErr], [matched |-> FALSE, err |-> NoErr],
     [matched |-> FALSE, err |-> "offer failed"]}

\* Variant of the operation that appends a forwarded task after a missed sync match.
AddTaskOperation_AppendForwarded(prevSync, ns, fwd, offer) ==
    IF ns = "error"
    THEN [do |-> "return", err |-> errNamespace, syncMatch |-> prevSync, triedSync |-> FALSE]
    ELSE IF ns = "notActive"
    THEN [do |-> "append", err |-> NoErr, syncMatch |-> FALSE, triedSync |-> FALSE]
    ELSE IF offer.matched
    THEN [do |-> "return", err |-> offer.err, syncMatch |-> TRUE, triedSync |-> TRUE]
    ELSE [do |-> "append", err |-> NoErr, syncMatch |-> FALSE, triedSync |-> TRUE]

\* Variant of the operation that tries the sync match before it looks at the
\* namespace's state.
AddTaskOperation_SyncFirst(prevSync, ns, fwd, offer) ==
    IF ns = "error"
    THEN [do |-> "return", err |-> errNamespace, syncMatch |-> prevSync, triedSync |-> FALSE]
    ELSE IF offer.matched
    THEN [do |-> "return", err |-> offer.err, syncMatch |-> TRUE, triedSync |-> TRUE]
    ELSE IF ns = "notActive"
    THEN [do |-> "append", err |-> NoErr, syncMatch |-> FALSE, triedSync |-> TRUE]
    ELSE IF fwd
    THEN [do |-> "return", err |-> errRemoteSyncMatchFailed, syncMatch |-> FALSE,
          triedSync |-> TRUE]
    ELSE [do |-> "append", err |-> NoErr, syncMatch |-> FALSE, triedSync |-> TRUE]

\* Variant of the operation that returns the error of a sync-match attempt that
\* did not match.
AddTaskOperation_OfferErrFails(prevSync, ns, fwd, offer) ==
    IF ns = "error"
    THEN [do |-> "return", err |-> errNamespace, syncMatch |-> prevSync, triedSync |-> FALSE]
    ELSE IF ns = "notActive"
    THEN [do |-> "append", err |-> NoErr, syncMatch |-> FALSE, triedSync |-> FALSE]
    ELSE IF offer.matched \/ offer.err # NoErr
    THEN [do |-> "return", err |-> offer.err, syncMatch |-> offer.matched,
          triedSync |-> TRUE]
    ELSE IF fwd
    THEN [do |-> "return", err |-> errRemoteSyncMatchFailed, syncMatch |-> FALSE,
          triedSync |-> TRUE]
    ELSE [do |-> "append", err |-> NoErr, syncMatch |-> FALSE, triedSync |-> TRUE]

\* The operation AddTask runs under executeWithRetry (one attempt); prevSync is
\* the value the captured syncMatch variable holds from an earlier attempt.
AddTaskOperation(prevSync, ns, fwd, offer) ==
    IF ns = "error"
    THEN [do |-> "return", err |-> errNamespace, syncMatch |-> prevSync, triedSync |-> FALSE]
    ELSE IF ns = "notActive"
    THEN [do |-> "append", err |-> NoErr, syncMatch |-> FALSE, triedSync |-> FALSE]
    ELSE IF offer.matched
    THEN [do |-> "return", err |-> offer.err, syncMatch |-> TRUE, triedSync |-> TRUE]
    ELSE IF fwd
    THEN [do |-> "return", err |-> errRemoteSyncMatchFailed, syncMatch |-> FALSE,
          triedSync |-> TRUE]
    ELSE [do |-> "append", err |-> NoErr, syncMatch |-> FALSE, triedSync |-> TRUE]

\* Variant of AddTask's tail that signals the reader whatever the error.
AddTaskSignals_Always(err) == TRUE

\* AddTask's tail: the reader is signalled iff the error is nil.
AddTaskSignals(err) == err = NoErr

\* Variant of Start that goes on to start writer and reader after it stopped the
\* manager on a failed lease renewal.
StartStep_StartsOnError(step, err) ==
    IF step = 0 THEN "renewLeaseWithRetry"
    ELSE CASE step = 1 -> (IF err # NoErr THEN "Stop" ELSE "setAckLevel")
           [] step = 2 -> "taskWriter.Start"
           [] step = 3 -> "taskReader.Start"
           [] OTHER -> "return"

\* Variant of Start's statement order that starts the reader before the ack
\* level is seeded and the writer is started.
StartStep_ReaderFirst(step, err) ==
    IF step = 0 THEN "renewLeaseWithRetry"
    ELSE IF err # NoErr
    THEN (IF step = 1 THEN "Stop" ELSE "return")
    ELSE CASE step = 1 -> "taskReader.Start"
           [] step = 2 -> "setAckLevel"
           [] step = 3 -> "taskWriter.Start"
           [] OTHER -> "return"

\* Start, statement by statement: the statement at position step, given the
\* error err of renewLeaseWithRetry.
StartStep(step, err) ==
    IF step = 0 THEN "renewLeaseWithRetry"
    ELSE IF err # NoErr
    THEN (IF step = 1 THEN "Stop" ELSE "return")
    ELSE CASE step = 1 -> "setAckLevel"
           [] step = 2 -> "taskWriter.Start"
           [] step = 3 -> "taskReader.Start"
           [] OTHER -> "return"

\* Start's steps after renewLeaseWithRetry returned err.
StartSteps(err) ==
    IF err # NoErr
    THEN [stop |-> TRUE, seed |-> FALSE, startWriter |-> FALSE, startReader |-> FALSE]
    ELSE [stop |-> FALSE, seed |-> TRUE, startWriter |-> TRUE, startReader |-> TRUE]

\* Variant of completeTask that does not run the GC after the acknowledgement.
completeTaskSteps_NoGC(dispatchErr, appendErr) ==
    IF dispatchErr = NoErr
    THEN [append |-> FALSE, stop |-> FALSE, signal |-> FALSE, ack |-> TRUE, gc |-> FALSE]
    ELSE IF appendErr # NoErr
    THEN [append |-> TRUE, stop |-> TRUE, signal |-> FALSE, ack |-> FALSE, gc |-> FALSE]
    ELSE [append |-> TRUE, stop |-> FALSE, signal |-> TRUE, ack |-> TRUE, gc |-> FALSE]

\* Variant of completeTask that goes on to acknowledge the task after a failed
\* re-append.
completeTaskSteps_AckAfterFailedAppend(dispatchErr, appendErr) ==
    IF dispatchErr = NoErr
    THEN [append |-> FALSE, stop |-> FALSE, signal |-> FALSE, ack |-> TRUE, gc |-> TRUE]
    ELSE IF appendErr # NoErr
    THEN [append |-> TRUE, stop |-> TRUE, signal |-> FALSE, ack |-> TRUE, gc |-> TRUE]
    ELSE [append |-> TRUE, stop |-> FALSE, signal |-> TRUE, ack |-> TRUE, gc |-> TRUE]

\* Variant of completeTask that leaves the manager running after a failed
\* re-append.
completeTaskSteps_NoStop(dispatchErr, appendErr) ==
    IF dispatchErr = NoErr
    THEN [append |-> FALSE, stop |-> FALSE, signal |-> FALSE, ack |-> TRUE, gc |-> TRUE]
    ELSE IF appendErr # NoErr
    THEN [append |-> TRUE, stop |-> FALSE, signal |-> FALSE, ack |-> FALSE, gc |-> FALSE]
    ELSE [append |-> TRUE, stop |-> FALSE, signal |-> TRUE, ack |-> TRUE, gc |-> TRUE]

\* Variant of completeTask that signals the reader after every completion.
completeTaskSteps_SignalAlways(dispatchErr, appendErr) ==
    IF dispatchErr = NoErr
    THEN [append |-> FALSE, stop |-> FALSE, signal |-> TRUE, ack |-> TRUE, gc |-> TRUE]
    ELSE IF appendErr # NoErr
    THEN [append |-> TRUE, stop |-> TRUE, signal |-> FALSE, ack |-> FALSE, gc |-> FALSE]
    ELSE [append |-> TRUE, stop |-> FALSE, signal |-> TRUE, ack |-> TRUE, gc |-> TRUE]

\* completeTask's steps for a task whose dispatch ended with dispatchErr, given
\* the result appendErr of the re-append (NoErr when none was made).
completeTaskSteps(dispatchErr, appendErr) ==
    IF dispatchErr = NoErr
    THEN [append |-> FALSE, stop |-> FALSE, signal |-> FALSE, ack |-> TRUE, gc |-> TRUE]
    ELSE IF appendErr # NoErr
    THEN [append |-> TRUE, stop |-> TRUE, signal |-> FALSE, ack |-> FALSE, gc |-> FALSE]
    ELSE [append |-> TRUE, stop |-> FALSE, signal |-> TRUE, ack |-> TRUE, gc |-> TRUE]

\* Variant of the acknowledgement that sets the ack level to the task's ID.
completeTaskAck_SetLevel(m, taskId) ==
    [AckState(m) EXCEPT !.ackLevel = taskId, !.outstanding = @ \ {taskId}]

\* completeTask's acknowledgement: taskAckManager.completeTask(task.GetTaskId()).
completeTaskAck(m, taskId) == ackCompleteTask(AckState(m), taskId)

\* ------------------------------------------------------- taskListManager.go, polls
\* The GetTask calls that can be in flight together.
Polls == {1, 2}

\* Poller IDs the frontend hands out; "" is a context without a poller ID.
PollerIDs == {"p7", "p8"}

\* Distances of a caller's deadline from the time of the call, in ticks: shorter
\* than the budget, equal to it, and up to beyond budget plus poll interval.
DeadlineOffsets == 1 .. (returnEmptyTaskTimeBudget + LongPollExpirationInterval + 1)

\* A context: done (cancelled), with or without a deadline.
NoCtx == [done |-> FALSE, hasDeadline |-> FALSE, deadline |-> 0]

IdlePoll == [pc |-> "idle", pollerID |-> "", parent |-> NoCtx, child |-> NoCtx,
             isParent |-> FALSE, ns |-> "active", mode |-> "none", enteredAt |-> 0,
             cancelHit |-> FALSE, result |-> "none", via |-> "none", shared |-> FALSE,
             rps |-> 0]

NoEntry == [present |-> FALSE, cancel |-> 0]

\* common.MaxInt64
MaxInt64(a, b) == IF a > b THEN a ELSE b

\* context.WithTimeout at time t: the child's deadline is t + timeout, or the
\* parent's deadline when that is earlier.
WithTimeout(parent, timeout, t) ==
    [done |-> FALSE, hasDeadline |-> TRUE,
     deadline |-> IF parent.hasDeadline /\ parent.deadline < t + timeout
                  THEN parent.deadline ELSE t + timeout]

\* Variant of newChildContext that leaves no tailroom.
newChildContext_NoTailroom(parent, timeout, tailroom, t) ==
    IF parent.done
    THEN [ctx |-> parent, isParent |-> TRUE]
    ELSE [ctx |-> WithTimeout(parent, timeout, t), isParent |-> FALSE]

\* newChildContext at time t: a parent that is done is returned itself, with a
\* cancel function that does nothing; otherwise the child's timeout is the given
\* one, or what is left of the parent's deadline less the tailroom, if shorter,
\* and never negative.
newChildContext(parent, timeout, tailroom, t) ==
    IF parent.done
    THEN [ctx |-> parent, isParent |-> TRUE]
    ELSE IF ~parent.hasDeadline
         THEN [ctx |-> WithTimeout(parent, timeout, t), isParent |-> FALSE]
         ELSE LET remaining == (parent.deadline - t) - tailroom
                  timeout2 == IF remaining < timeout THEN MaxInt64(0, remaining) ELSE timeout
              IN [ctx |-> WithTimeout(parent, timeout2, t), isParent |-> FALSE]

\* Variant of the registration that enters nothing.
getTaskRegister_None(map, pollerID, cancel) ==
    map

\* getTask, registration: a non-empty poller ID is entered in the map with the
\* cancel function of the child context.
getTaskRegister(map, pollerID, cancel) ==
    IF pollerID # ""
    THEN [map EXCEPT ![pollerID] = [present |-> TRUE, cancel |-> cancel]]
    ELSE map

\* Variant of the deferred removal in getTask that keeps the entry.
getTaskDeferred_NoDelete(map, pollerID) ==
    map

\* getTask, deferred on every return: the entry of a non-empty poller ID is deleted.
getTaskDeferred(map, pollerID) ==
    IF pollerID # ""
    THEN [map EXCEPT ![pollerID] = NoEntry]
    ELSE map

\* Variant of getTask's choice of the poll that ignores the namespace's state.
getTaskPoll_Always(ns) ==
    "Poll"

\* getTask after the namespace lookup: a namespace that is not active here is
\* served from the query channel only.
getTaskPoll(ns) ==
    IF ns = "notActive" THEN "PollForQuery" ELSE "Poll"

\* Variant of CancelPoller that does not call the cancel function.
CancelPollerTarget_None(map, pollerID) ==
    0

\* CancelPoller: the poll whose child context the looked-up cancel function
\* cancels; 0 when there is no entry, or the function does nothing.
CancelPollerTarget(map, pollerID) ==
    IF map[pollerID].present THEN map[pollerID].cancel ELSE 0

\* Variant of isFowardingAllowed that leaves out the queue kind.
isFowardingAllowed_NoKind(isRoot, kind) ==
    ~isRoot

\* isFowardingAllowed
isFowardingAllowed(isRoot, kind) ==
    ~isRoot /\ kind # "sticky"

\* A context is done at time t: cancelled, or its deadline has come.
CtxDone(ctx, t) == ctx.done \/ (ctx.hasDeadline /\ t >= ctx.deadline)

\* The forwarder forwards: there is one, and the degree of children per node is
\* not exceeded.
ForwardingEnabled == forwarder /\ ~taskList.degreeExceeded

\* matcher.Poll / matcher.PollForQuery: what the race can end with.  A regular
\* task or a query arrives locally or, with forwarding, from the parent; a done
\* context ends the poll with the empty task.
PollOutcomes(mode, ctx, t) ==
    LET kinds == IF mode = "PollForQuery" THEN {"query"} ELSE {"task", "query"}
        vias == IF ForwardingEnabled THEN {"local", "parent"} ELSE {"local"}
    IN {[result |-> k, via |-> v] : k \in kinds, v \in vias}
       \cup (IF CtxDone(ctx, t) THEN {[result |-> "empty", via |-> "none"]} ELSE {})

\* ------------------------------------------------------- user data manager (4.8)
\* A partition of a task queue: a normal partition of the queue "tq", or a sticky
\* queue paired with the normal queue normalName.
NormalPartition(type, id) ==
    [name |-> "tq", normalName |-> "tq", kind |-> "normal", type |-> type, id |-> id]

StickyPartition(type) ==
    [name |-> "sticky", normalName |-> "tq", kind |-> "sticky", type |-> type, id |-> 0]

\* The partitions a manager is created for.
PartitionIds == {0, 1, 2, 4, 12, 31}

UDPartitions ==
    {NormalPartition(type, id) : type \in {"workflow", "activity"}, id \in PartitionIds}
       \cup {StickyPartition(type) : type \in {"workflow", "activity"}}

\* The partition that owns the user data: the root workflow partition of a normal
\* queue.
OwnsUserData(p) == p.kind = "normal" /\ p.type = "workflow" /\ p.id = 0

\* The parent of partition id in a tree of the given degree.
parentPartition(id, degree) == (id + degree - 1) \div degree - 1

NoTarget == [name |-> "none", type |-> "none", id |-> -1]

\* Variant of the fetch source that keeps the partition's own task type.
userDataFetchSource_OwnType(p, degree) ==
    IF p.kind = "sticky"
    THEN [name |-> p.normalName, type |-> p.type, id |-> 0]
    ELSE IF p.type # "workflow"
    THEN [name |-> p.name, type |-> p.type, id |-> 0]
    ELSE [name |-> p.name, type |-> "workflow", id |-> parentPartition(p.id, degree)]

\* The partition a manager fetches user data from: the root of the paired normal
\* queue for a sticky queue, the root workflow partition for an activity
\* partition, the parent for a non-root workflow partition.
userDataFetchSource(p, degree) ==
    IF p.kind = "sticky"
    THEN [name |-> p.normalName, type |-> "workflow", id |-> 0]
    ELSE IF p.type # "workflow"
    THEN [name |-> p.name, type |-> "workflow", id |-> 0]
    ELSE [name |-> p.name, type |-> "workflow", id |-> parentPartition(p.id, degree)]

NoReq == [target |-> NoTarget, version |-> -1, wait |-> FALSE]
NoResp == [kind |-> "none", version |-> 0]

\* A manager before Start.  version 0 stands for nil user data; fetched is the
\* loop's hasFetchedUserData; sent counts the requests (2: two or more); unimpl
\* records an Unimplemented reply.
NewUserDataManager ==
    [pc |-> "new", version |-> 0, ready |-> FALSE, fetched |-> FALSE, sent |-> 0,
     unimpl |-> FALSE, req |-> NoReq, resp |-> NoResp]

NoUpdate == [i |-> -1, err |-> NoErr, before |-> 0, after |-> 0]

\* Variant of UpdateUserData that applies the update on any partition.
UpdateUserData_AnyPartition(p, version) ==
    [err |-> NoErr, version |-> version + 1]

\* UpdateUserData: the owner applies the update and bumps the version; any other
\* partition fails with the fixed error.
UpdateUserData(p, version) ==
    IF OwnsUserData(p)
    THEN [err |-> NoErr, version |-> version + 1]
    ELSE [err |-> errUserDataNoMutateNonRoot, version |-> version]

\* Variant of the request that is a long poll from the first request on.
fetchRequest_LongPollAlways(p, u) ==
    [target |-> userDataFetchSource(p, ForwarderMaxChildrenPerNode),
     version |-> u.version, wait |-> TRUE]

\* Variant of the request that long-polls from the second request on.
fetchRequest_WaitAfterFirst(p, u) ==
    [target |-> userDataFetchSource(p, ForwarderMaxChildrenPerNode),
     version |-> u.version, wait |-> u.sent > 0]

\* The request of the fetch loop: the last known version, and WaitNewData once a
\* fetch has succeeded.
fetchRequest(p, u) ==
    [target |-> userDataFetchSource(p, ForwarderMaxChildrenPerNode),
     version |-> u.version, wait |-> u.fetched]

\* Variant that replaces the local copy by any fetched user data.
setUserDataForNonOwningPartition_Always(local, fetched) ==
    IF fetched # 0 THEN fetched ELSE local

\* A response with user data replaces the local copy only if its version is
\* greater; a nil body leaves it.
setUserDataForNonOwningPartition(local, fetched) ==
    IF fetched > local THEN fetched ELSE local

\* Variant of the response handling that does not set the manager ready on an
\* Unimplemented reply.
fetchResponse_UnimplementedNotReady(u, resp) ==
    IF resp.kind = "ok"
    THEN [u EXCEPT !.version = setUserDataForNonOwningPartition(@, resp.version),
                   !.ready = TRUE, !.fetched = TRUE]
    ELSE IF resp.kind = Unimplemented
    THEN [u EXCEPT !.unimpl = TRUE]
    ELSE u

\* Variant of the response handling that sets the manager ready on any reply.
fetchResponse_ReadyOnError(u, resp) ==
    IF resp.kind = "ok"
    THEN [u EXCEPT !.version = setUserDataForNonOwningPartition(@, resp.version),
                   !.ready = TRUE, !.fetched = TRUE]
    ELSE IF resp.kind = Unimplemented
    THEN [u EXCEPT !.ready = TRUE, !.unimpl = TRUE]
    ELSE [u EXCEPT !.ready = TRUE]

\* The fetch loop's handling of a reply.  A successful reply stores the data,
\* marks the manager ready and turns the following requests into long polls; an
\* Unimplemented reply marks it ready with the data it has (none) and is retried
\* like an error; Unavailable is retried.
fetchResponse(u, resp) ==
    IF resp.kind = "ok"
    THEN [u EXCEPT !.version = setUserDataForNonOwningPartition(@, resp.version),
                   !.ready = TRUE, !.fetched = TRUE]
    ELSE IF resp.kind = Unimplemented
    THEN [u EXCEPT !.ready = TRUE, !.unimpl = TRUE]
    ELSE u

\* Variant of the upstream's answer that never carries user data.
HandleGetUserDataRequest_Nil(version, req) == 0

\* The upstream's answer to a request: its user data if newer than the
\* requester's, otherwise a nil body (at once, or when the long poll times out).
HandleGetUserDataRequest(version, req) ==
    IF version > req.version THEN version ELSE 0

\* The answers of an arbitrary upstream.
MockResponses ==
    {[kind |-> "ok", version |-> v] : v \in 0 .. MaxVersion}
       \cup {[kind |-> Unavailable, version |-> 0], [kind |-> Unimplemented, version |-> 0]}

\* ------------------------------------------------------------------ initial state
\* The partition's row is new (rangeID 0), or was left by an earlier owner.
InitCore ==
    /\ \E r0 \in {0, 1} : storeRangeID = r0 /\ storeAckLevel = r0
    /\ storeTasks = {}
    /\ startState = [m \in Managers |-> "new"]
    /\ stopped = [m \in Managers |-> FALSE]
    /\ shutdownCh = [m \in Managers |-> "open"]
    /\ running = [m \in Managers |-> [writer |-> FALSE, reader |-> FALSE]]
    /\ registry = [m \in Managers |-> [present |-> TRUE, removeCalls |-> 0]]
    /\ stopCalls = [m \in Managers |-> 0]
    /\ dbRangeID = [m \in Managers |-> 0]
    /\ taskIDBlock = [m \in Managers |-> [start |-> 0, end |-> 0]]
    /\ maxReadLevel = [m \in Managers |-> 0]
    /\ ackLevel = [m \in Managers |-> 0]
    /\ readLevel = [m \in Managers |-> 0]
    /\ outstanding = [m \in Managers |-> {}]
    /\ completed = [m \in Managers |-> {}]
    /\ taskBuffer = [m \in Managers |-> {}]
    /\ cur = [m \in Managers |-> IdleCall]
    /\ lastRet = NoRet
    /\ appendLog = [m \in Managers |-> <<>>]
    /\ ackArgs = [m \in Managers |-> {}]
    /\ leaseCF = [m \in Managers |-> FALSE]
    /\ cfStopped = [m \in Managers |-> FALSE]
    /\ dispatched = {}
    /\ nextPayload = 1
    /\ faults = 0
    /\ dispatchFails = 0
    /\ gateCalls = [m \in Managers |-> {}]
    /\ queryOffers = [m \in Managers |-> 0]
    /\ ratelimit = 0
    /\ stopStep = [m \in Managers |-> 0]
    /\ syncCtx = [pc |-> "idle", now |-> 0, parent |-> [done |-> FALSE, hasDeadline |-> FALSE,
                                                       deadline |-> 0],
                  child |-> [done |-> FALSE, hasDeadline |-> FALSE, deadline |-> 0],
                  isParent |-> FALSE, enteredAt |-> 0, returnedAt |-> 0]
    /\ sql = [current |-> [exists |-> FALSE, runID |-> "", state |-> "", lastWriteVersion |-> 0],
              executions |-> {}, seq |-> 0,
              last |-> [mode |-> "", previousRunID |-> "", previousLastWriteVersion |-> 0,
                        runID |-> "", lastWriteVersion |-> 0, err |-> NoErr]]

\* The partitions and queue kinds a manager can be built for.
TaskLists == [isRoot : BOOLEAN, kind : {"normal", "sticky"}, degreeExceeded : BOOLEAN]

\* newTaskListManager, poll side: the matcher gets a forwarder exactly when
\* isFowardingAllowed says so; no poll is outstanding.
newTaskListManager(tl) ==
    /\ now = 0
    /\ taskList = tl
    /\ forwarder = isFowardingAllowed(tl.isRoot, tl.kind)
    /\ polls = [p \in Polls |-> IdlePoll]
    /\ outstandingPollsMap = [id \in PollerIDs |-> NoEntry]
    /\ pollCalls = 0

\* The user data managers of the workflow partitions of one queue, not started.
newUserDataManagers ==
    /\ udPartition = [i \in UDManagers |-> NormalPartition("workflow", i)]
    /\ ud = [i \in UDManagers |-> NewUserDataManager]
    /\ udUpdate = NoUpdate

\* The manager of a root partition of a normal queue.
Init ==
    /\ InitCore
    /\ newTaskListManager([isRoot |-> TRUE, kind |-> "normal", degreeExceeded |-> FALSE])
    /\ newUserDataManagers

\* The same, on a partition whose row is new.
InitRoot ==
    /\ Init
    /\ storeRangeID = 0

\* A manager of any partition and queue kind, on a partition whose row is new.
InitPoll ==
    /\ InitCore
    /\ storeRangeID = 0
    /\ \E tl \in TaskLists : newTaskListManager(tl)
    /\ newUserDataManagers

\* One user data manager, of any partition, not started.
InitFetch ==
    /\ InitCore
    /\ storeRangeID = 0
    /\ newTaskListManager([isRoot |-> TRUE, kind |-> "normal", degreeExceeded |-> FALSE])
    /\ \E p \in UDPartitions :
          udPartition = [i \in UDManagers |->
                            IF i = 0 THEN p ELSE NormalPartition("workflow", i)]
    /\ ud = [i \in UDManagers |-> NewUserDataManager]
    /\ udUpdate = NoUpdate

\* The managers of the workflow partitions of one queue after Start: the root
\* has loaded that there is no user data, the others run their fetch loops.
InitTree ==
    /\ InitCore
    /\ storeRangeID = 0
    /\ newTaskListManager([isRoot |-> TRUE, kind |-> "normal", degreeExceeded |-> FALSE])
    /\ udPartition = [i \in UDManagers |-> NormalPartition("workflow", i)]
    /\ ud = [i \in UDManagers |->
                IF i = 0
                THEN [NewUserDataManager EXCEPT !.pc = "owner", !.ready = TRUE]
                ELSE [NewUserDataManager EXCEPT !.pc = "loop"]]
    /\ udUpdate = NoUpdate

\* ------------------------------------------------------------------ actions
\* Start: renew the lease; on an error Stop and return it; otherwise seed the ack
\* level, start the writer with the block of the rangeID, start the reader.
Start(m) ==
    /\ startState[m] = "new"
    /\ \E outcome \in LeaseOutcomes(m) :
         LET r == renewLeaseWithRetry(m, outcome)
             s == StartSteps(r.err)
             block == rangeIDToTaskIDBlock(r.state.rangeID)
         IN /\ LeaseEffect(m, r, outcome)
            /\ startState' = [startState EXCEPT ![m] = IF r.err = NoErr THEN "ok" ELSE "failed"]
            /\ IF s.seed
               THEN SetAckState(m, ackSetAckLevel(AckState(m), r.state.ackLevel))
               ELSE UNCHANGED <<ackLevel, readLevel, outstanding, completed>>
            /\ IF s.startWriter
               THEN /\ taskIDBlock' = [taskIDBlock EXCEPT ![m] = block]
                    /\ maxReadLevel' = [maxReadLevel EXCEPT ![m] = block.start - 1]
               ELSE UNCHANGED <<taskIDBlock, maxReadLevel>>
            /\ IF s.stop \/ r.unload
               THEN Stop(m)
               ELSE /\ running' = [running EXCEPT ![m] =
                                      [writer |-> s.startWriter, reader |-> s.startReader]]
                    /\ UNCHANGED <<stopped, shutdownCh, registry>>
            /\ lastRet' = [NoRet EXCEPT !.m = m, !.op = "Start", !.err = r.err]
    /\ UNCHANGED <<pollVars, udVars, callVars, storeAckLevel, storeTasks, taskBuffer, cur, appendLog, ackArgs,
                   stopCalls, cfStopped, dispatched, nextPayload, dispatchFails>>

\* Variant of the start gate that Start opens only when it succeeds.
startWG_DoneOnSuccess(m) == IF startState[m] = "ok" THEN 0 ELSE 1

\* Variant of the start gate that is open from construction on.
startWG_NoAdd(m) == 0

\* c.startWG, the counter of the start gate: newTaskListManager adds one, Start's
\* deferred Done takes it off when Start returns, with or without an error.
startWG(m) == IF startState[m] = "new" THEN 1 ELSE 0

\* AddTask is called (after the start gate): the operation runs under executeWithRetry.
AddTaskWith(m, nsInputs, fwdInputs) ==
    /\ startWG(m) = 0
    /\ cur[m].pc = "idle"
    /\ EventLeft
    /\ \E ns \in nsInputs, fwd \in fwdInputs :
         cur' = [cur EXCEPT ![m] = [IdleCall EXCEPT !.op = "AddTask", !.pc = "op",
                                       !.payload = nextPayload, !.ns = ns, !.fwd = fwd,
                                       !.afterCF = stopped[m] /\ cfStopped[m]]]
    /\ nextPayload' = nextPayload + 1
    /\ UNCHANGED <<pollVars, udVars, callVars, storeVars, lifeVars, writerVars, ackVars, lastRet, appendLog,
                   ackArgs, leaseCF, cfStopped, dispatched, faults, dispatchFails>>

AddTask(m) == AddTaskWith(m, {"active", "notActive", "error"}, BOOLEAN)

\* AddTask of a task that is not forwarded, in an active namespace.
AddTaskLocal(m) == AddTaskWith(m, {"active"}, {FALSE})

\* taskWriter.appendTask, caller's side: a stopped writer refuses the request,
\* a running writer takes it.
AppendTaskRequest(m, c) ==
    IF running[m].writer
    THEN [c EXCEPT !.pc = "alloc", !.err = NoErr]
    ELSE [c EXCEPT !.pc = "resp", !.err = errShutdown]

\* One attempt of the operation passed to executeWithRetry, up to its return or
\* to the append request handed to the writer.
Operation(m) ==
    LET c == [cur[m] EXCEPT !.attempts = @ + 1]
    IN /\ cur[m].pc = "op"
       /\ IF c.op = "completeTask"
          THEN /\ cur' = [cur EXCEPT ![m] = AppendTaskRequest(m, c)]
               /\ UNCHANGED <<taskBuffer, dispatched>>
          ELSE \E offer \in OfferOutcomes :
                 LET o == AddTaskOperation(c.syncMatch, c.ns, c.fwd, offer)
                     task == trySyncMatch(c.payload)
                     c2 == [c EXCEPT !.syncMatch = o.syncMatch,
                                     !.triedSync = @ \/ o.triedSync,
                                     !.offerFailed = /\ o.triedSync
                                                     /\ ~offer.matched
                                                     /\ offer.err # NoErr]
                     handed == o.triedSync /\ offer.matched
                 IN /\ cur' = [cur EXCEPT ![m] =
                                  IF o.do = "return"
                                  THEN [c2 EXCEPT !.pc = "resp", !.err = o.err]
                                  ELSE AppendTaskRequest(m, c2)]
                    \* a task that is not a sync-match task finishes through completeTask
                    /\ taskBuffer' = [taskBuffer EXCEPT ![m] =
                                         IF handed /\ ~task.sync THEN @ \cup {task} ELSE @]
                    /\ dispatched' = IF handed /\ task.sync /\ offer.err = NoErr
                                      THEN dispatched \cup {c.payload} ELSE dispatched
       /\ UNCHANGED <<pollVars, udVars, callVars, storeVars, lifeVars, writerVars, ackLevel, readLevel, outstanding,
                      completed, lastRet, appendLog, ackArgs, leaseCF, cfStopped, nextPayload, faults,
                      dispatchFails>>

\* Writer loop, allocTaskIDs(1): the next ID of the current block; an exhausted
\* block is replaced through allocTaskIDBlock first.
WriterAlloc(m) ==
    LET c == cur[m]
        blk == taskIDBlock[m]
    IN /\ c.pc = "alloc"
       /\ IF blk.start > blk.end
          THEN \E outcome \in LeaseOutcomes(m) :
                 LET a == allocTaskIDBlock(m, blk.end, outcome)
                 IN /\ IF a.renewed
                       THEN LeaseEffect(m, a.lease, outcome)
                       ELSE UNCHANGED <<storeRangeID, dbRangeID, faults, leaseCF>>
                    /\ IF a.err # NoErr
                       THEN /\ cur' = [cur EXCEPT ![m] =
                                         [c EXCEPT !.pc = "resp", !.err = a.err,
                                                   !.sawCF = @ \/ a.err = ConditionFailedError]]
                            /\ UNCHANGED taskIDBlock
                            /\ StopIf(m, a.renewed /\ a.lease.unload)
                       ELSE /\ cur' = [cur EXCEPT ![m] =
                                         [c EXCEPT !.pc = "create", !.newId = a.block.start]]
                            /\ taskIDBlock' = [taskIDBlock EXCEPT ![m] =
                                                 [start |-> a.block.start + 1, end |-> a.block.end]]
                            /\ UNCHANGED <<stopped, shutdownCh, running, registry>>
          ELSE /\ cur' = [cur EXCEPT ![m] = [c EXCEPT !.pc = "create", !.newId = blk.start]]
               /\ taskIDBlock' = [taskIDBlock EXCEPT ![m] = [blk EXCEPT !.start = @ + 1]]
               /\ UNCHANGED <<storeRangeID, dbRangeID, faults, leaseCF,
                              stopped, shutdownCh, running, registry>>
       /\ UNCHANGED <<pollVars, udVars, callVars, storeAckLevel, storeTasks, startState, stopCalls, maxReadLevel, ackVars,
                      lastRet, appendLog, ackArgs, cfStopped, dispatched, nextPayload,
                      dispatchFails>>

\* Writer loop, db.CreateTasks with the allocated ID; the reader's upper bound
\* moves to the ID only after the write succeeded.
WriterCreate(m) ==
    LET c == cur[m]
    IN /\ c.pc = "create"
       /\ \E outcome \in CreateOutcomes(m) :
            LET err == CreateErr(outcome)
            IN /\ cur' = [cur EXCEPT ![m] =
                            [c EXCEPT !.pc = "resp", !.err = err, !.appended = (err = NoErr),
                                      !.sawCF = @ \/ err = ConditionFailedError]]
               /\ faults' = IF outcome = "transient" THEN faults + 1 ELSE faults
               /\ IF err = NoErr
                  THEN /\ storeTasks' = storeTasks \cup {[id |-> c.newId, payload |-> c.payload]}
                       /\ maxReadLevel' = [maxReadLevel EXCEPT ![m] = c.newId]
                       /\ appendLog' = [appendLog EXCEPT ![m] =
                                           Append(@, [id |-> c.newId, payload |-> c.payload])]
                  ELSE UNCHANGED <<storeTasks, maxReadLevel, appendLog>>
       /\ UNCHANGED <<pollVars, udVars, callVars, storeRangeID, storeAckLevel, lifeVars, dbRangeID, taskIDBlock, ackVars,
                      lastRet, ackArgs, leaseCF, cfStopped, dispatched, nextPayload,
                      dispatchFails>>

\* executeWithRetry after an attempt: retry the operation, or return to AddTask /
\* completeTask, which finish in the same step.
Return(m) ==
    LET c == cur[m]
        s == completeTaskSteps("dispatch failed", c.err)
        a == completeTaskAck(m, c.taskId)
        ret == [NoRet EXCEPT !.m = m, !.op = c.op, !.payload = c.payload, !.err = c.err, !.syncMatch = c.syncMatch,
                             !.triedSync = c.triedSync, !.appended = c.appended,
                             !.attempts = c.attempts, !.ns = c.ns, !.fwd = c.fwd,
                             !.taskId = c.taskId, !.afterCF = c.afterCF,
                             !.offerFailed = c.offerFailed,
                             !.newId = IF c.appended THEN c.newId ELSE 0]
    IN /\ c.pc = "resp"
       /\ \E expired \in BOOLEAN :
          LET d == executeWithRetry(c.err, expired) IN
          IF d.retry
          THEN /\ cur' = [cur EXCEPT ![m] = [c EXCEPT !.pc = "op"]]
               /\ UNCHANGED <<storeTasks, stopped, shutdownCh, running, registry, ackLevel,
                              readLevel, outstanding, completed, lastRet, ackArgs, cfStopped>>
          ELSE /\ cur' = [cur EXCEPT ![m] = IdleCall]
               /\ cfStopped' = [cfStopped EXCEPT ![m] = @ \/ d.stop]
               /\ IF c.op = "AddTask"
                  THEN /\ StopIf(m, d.stop)
                       /\ lastRet' = [ret EXCEPT !.signalled = AddTaskSignals(c.err)]
                       /\ UNCHANGED <<storeTasks, ackLevel, readLevel, outstanding,
                                      completed, ackArgs>>
                  ELSE /\ StopIf(m, d.stop \/ s.stop)
                       /\ lastRet' = [ret EXCEPT !.signalled = s.signal, !.acked = s.ack,
                                                  !.gc = IF s.gc THEN a.ackLevel ELSE -1]
                       /\ IF s.ack
                          THEN /\ SetAckState(m, a)
                               /\ ackArgs' = [ackArgs EXCEPT ![m] = @ \cup {c.taskId}]
                          ELSE UNCHANGED <<ackLevel, readLevel, outstanding, completed, ackArgs>>
                       /\ IF s.gc
                          THEN \E fire \in BOOLEAN :
                                 storeTasks' = taskGCRun(storeTasks, a.ackLevel, fire)
                          ELSE UNCHANGED storeTasks
       /\ UNCHANGED <<pollVars, udVars, callVars, storeRangeID, storeAckLevel, startState, stopCalls, writerVars, taskBuffer,
                      appendLog, leaseCF, dispatched, nextPayload, faults, dispatchFails>>

\* Task reader: the next row above the read level and within the writer's bound
\* is registered with the ack manager and handed on for dispatch.
ReaderRead(m) ==
    LET rows == {r \in storeTasks : r.id > readLevel[m] /\ r.id <= maxReadLevel[m]}
    IN /\ running[m].reader
       /\ rows # {}
       /\ LET r == CHOOSE x \in rows : \A y \in rows : x.id <= y.id
          IN /\ SetAckState(m, ackAddTask(AckState(m), r.id))
             /\ taskBuffer' = [taskBuffer EXCEPT ![m] =
                                  @ \cup {[id |-> r.id, payload |-> r.payload, sync |-> FALSE]}]
             /\ ackArgs' = [ackArgs EXCEPT ![m] = @ \cup {r.id}]
       /\ UNCHANGED <<pollVars, udVars, callVars, storeVars, lifeVars, writerVars, cur, lastRet, appendLog, leaseCF, cfStopped,
                      dispatched, nextPayload, faults, dispatchFails>>

\* completeTask(task, nil): the poller started the task.
CompleteOK(m) ==
    \E t \in taskBuffer[m] :
       LET s == completeTaskSteps(NoErr, NoErr)
           a == completeTaskAck(m, t.id)
       IN /\ taskBuffer' = [taskBuffer EXCEPT ![m] = @ \ {t}]
          /\ dispatched' = dispatched \cup {t.payload}
          /\ StopIf(m, s.stop)
          /\ IF s.ack
             THEN /\ SetAckState(m, a)
                  /\ ackArgs' = [ackArgs EXCEPT ![m] = @ \cup {t.id}]
             ELSE UNCHANGED <<ackLevel, readLevel, outstanding, completed, ackArgs>>
          /\ IF s.gc
             THEN \E fire \in BOOLEAN : storeTasks' = taskGCRun(storeTasks, a.ackLevel, fire)
             ELSE UNCHANGED storeTasks
          /\ lastRet' = [NoRet EXCEPT !.m = m, !.op = "completeTask", !.taskId = t.id,
                                       !.payload = t.payload,
                                       !.appended = s.append,
                                       !.signalled = s.signal, !.acked = s.ack,
                                       !.gc = IF s.gc THEN a.ackLevel ELSE -1]
          /\ UNCHANGED <<pollVars, udVars, callVars, storeRangeID, storeAckLevel, startState, stopCalls, writerVars, cur, appendLog,
                         leaseCF, cfStopped, nextPayload, faults, dispatchFails>>

\* completeTask(task, err) with err # nil is called: the task is re-appended
\* under executeWithRetry.
CompleteErr(m) ==
    /\ cur[m].pc = "idle"
    /\ EventLeft
    /\ \E t \in taskBuffer[m] :
         /\ taskBuffer' = [taskBuffer EXCEPT ![m] = @ \ {t}]
         /\ cur' = [cur EXCEPT ![m] = [IdleCall EXCEPT !.op = "completeTask", !.pc = "op",
                                       !.payload = t.payload, !.taskId = t.id]]
    /\ dispatchFails' = dispatchFails + 1
    /\ UNCHANGED <<pollVars, udVars, callVars, storeVars, lifeVars, writerVars, ackLevel, readLevel, outstanding,
                   completed, lastRet, appendLog, ackArgs, leaseCF, cfStopped, dispatched,
                   nextPayload, faults>>

\* The values allocTaskIDBlock can be called with.
PrevBlockEnds == 0 .. ((MaxEvents + 1) * RangeSize)

\* allocTaskIDBlock(prevBlockEnd) is called on a started manager with any
\* prevBlockEnd; the call and its result are recorded.
AllocTaskIDBlockCall(m) ==
    /\ startState[m] = "ok"
    /\ cur[m].pc = "idle"
    /\ storeRangeID <= MaxEvents
    /\ \E prevBlockEnd \in PrevBlockEnds, outcome \in LeaseOutcomes(m) :
         LET a == allocTaskIDBlock(m, prevBlockEnd, outcome)
         IN /\ IF a.renewed
               THEN LeaseEffect(m, a.lease, outcome)
               ELSE UNCHANGED <<storeRangeID, dbRangeID, faults, leaseCF>>
            /\ StopIf(m, a.renewed /\ a.lease.unload)
            /\ lastRet' = [NoRet EXCEPT !.m = m, !.op = "allocTaskIDBlock", !.err = a.err,
                                         !.prevBlockEnd = prevBlockEnd, !.block = a.block,
                                         !.before = [db |-> dbRangeID[m], store |-> storeRangeID],
                                         !.after = [db |-> dbRangeID'[m],
                                                    store |-> storeRangeID']]
    /\ UNCHANGED <<pollVars, udVars, callVars, storeAckLevel, storeTasks, startState, stopCalls, taskIDBlock,
                   maxReadLevel, ackVars, cur, appendLog, ackArgs, cfStopped, dispatched,
                   nextPayload, dispatchFails>>

\* Start, one statement per step (the state of the lease is kept in cur).
StartNext(m) ==
    LET c == cur[m]
        stmt == StartStep(c.step, c.err)
        next == [c EXCEPT !.step = @ + 1]
        block == rangeIDToTaskIDBlock(c.rangeID)
    IN /\ startState[m] = "new"
       /\ IF c.pc = "idle" THEN c.step = 0 ELSE c.op = "Start"
       /\ IF stmt = "renewLeaseWithRetry"
          THEN \E outcome \in LeaseOutcomes(m) :
                 LET r == renewLeaseWithRetry(m, outcome)
                 IN /\ LeaseEffect(m, r, outcome)
                    /\ StopIf(m, r.unload)
                    /\ cur' = [cur EXCEPT ![m] =
                                  [IdleCall EXCEPT !.op = "Start", !.pc = "start", !.step = 1,
                                                   !.err = r.err, !.rangeID = r.state.rangeID,
                                                   !.ackLevel = r.state.ackLevel]]
          ELSE /\ cur' = [cur EXCEPT ![m] = IF stmt = "return" THEN IdleCall ELSE next]
               /\ UNCHANGED <<storeRangeID, dbRangeID, faults, leaseCF>>
               /\ IF stmt = "Stop"
                  THEN Stop(m)
                  ELSE /\ running' = [running EXCEPT ![m] =
                                         [writer |-> @.writer \/ stmt = "taskWriter.Start",
                                          reader |-> @.reader \/ stmt = "taskReader.Start"]]
                       /\ UNCHANGED <<stopped, shutdownCh, registry>>
       /\ IF stmt = "setAckLevel"
          THEN SetAckState(m, ackSetAckLevel(AckState(m), c.ackLevel))
          ELSE UNCHANGED <<ackLevel, readLevel, outstanding, completed>>
       /\ IF stmt = "taskWriter.Start"
          THEN /\ taskIDBlock' = [taskIDBlock EXCEPT ![m] = block]
               /\ maxReadLevel' = [maxReadLevel EXCEPT ![m] = block.start - 1]
          ELSE UNCHANGED <<taskIDBlock, maxReadLevel>>
       /\ IF stmt = "return"
          THEN /\ startState' = [startState EXCEPT ![m] =
                                    IF c.err = NoErr THEN "ok" ELSE "failed"]
               /\ lastRet' = [NoRet EXCEPT !.m = m, !.op = "Start", !.err = c.err]
          ELSE UNCHANGED <<startState, lastRet>>
       /\ UNCHANGED <<pollVars, udVars, callVars, storeAckLevel, storeTasks, stopCalls, taskBuffer, appendLog, ackArgs,
                      cfStopped, dispatched, nextPayload, dispatchFails>>

\* Stop called from outside, first statement: the compare-and-swap of c.stopped;
\* a call that loses it returns.
StopCAS(m) ==
    /\ startState[m] # "new"
    /\ EventLeft
    /\ stopCalls' = [stopCalls EXCEPT ![m] = @ + 1]
    /\ stopped' = [stopped EXCEPT ![m] = TRUE]
    /\ UNCHANGED <<pollVars, udVars, callVars, storeVars, startState, shutdownCh, running, registry, writerVars, ackVars,
                   cur, histVars>>

\* Stop called from outside, the call that won the compare-and-swap: close the
\* shutdown channel, stop writer and reader, remove the manager from the registry.
StopSequence(m) ==
    /\ stopped[m]
    /\ shutdownCh[m] = "open"
    /\ shutdownCh' = [shutdownCh EXCEPT ![m] = "closed"]
    /\ running' = [running EXCEPT ![m] = [writer |-> FALSE, reader |-> FALSE]]
    /\ registry' = [registry EXCEPT ![m] =
                       [present |-> FALSE, removeCalls |-> @.removeCalls + 2]]
    /\ UNCHANGED <<pollVars, udVars, callVars, storeVars, startState, stopped, stopCalls, writerVars, ackVars, cur,
                   histVars>>

\* The contexts a caller can pass at time t: without a deadline (cancelled
\* already or not), or with a deadline still ahead.
ParentCtxs(t, offsets) ==
    {[done |-> d, hasDeadline |-> FALSE, deadline |-> 0] : d \in BOOLEAN}
    \cup {[done |-> FALSE, hasDeadline |-> TRUE, deadline |-> t + o] : o \in offsets}

\* A GetTask call is in flight in slot p.
InFlight(p) == polls[p].pc \in {"registered", "polling"}

\* GetTask returns from slot p: the deferred removal from the map runs; the
\* call's record stays, with its result, until the slot is used again.
GetTaskReturn(p, result, via) ==
    /\ polls' = [polls EXCEPT ![p] = [@ EXCEPT !.pc = "returned", !.result = result,
                                               !.via = via]]
    /\ outstandingPollsMap' = getTaskDeferred(outstandingPollsMap, polls[p].pollerID)

\* The poller IDs no GetTask call in flight carries.
FreePollerIDs == {i \in PollerIDs : \A q \in Polls : InFlight(q) => polls[q].pollerID # i}

\* GetTask is called with a poller ID of ids, or none: the child context is made
\* and, for a non-empty poller ID, its cancel function is entered in the map.
\* Calls that are in flight at the same time under one poller ID are marked.
GetTaskEnterAs(p, ids, offsets) ==
    /\ ~InFlight(p)
    /\ pollCalls < MaxPolls
    /\ \E id \in {""} \cup ids, parent \in ParentCtxs(now, offsets) :
         LET n == newChildContext(parent, LongPollExpirationInterval,
                                  returnEmptyTaskTimeBudget, now)
             same == {q \in Polls \ {p} : InFlight(q) /\ id # "" /\ polls[q].pollerID = id}
         IN /\ polls' = [q \in Polls |->
                           IF q = p
                           THEN [IdlePoll EXCEPT !.pc = "registered", !.pollerID = id,
                                                 !.parent = parent, !.child = n.ctx,
                                                 !.isParent = n.isParent, !.enteredAt = now,
                                                 !.shared = same # {}]
                           ELSE IF q \in same
                                THEN [polls[q] EXCEPT !.shared = TRUE]
                                ELSE polls[q]]
            /\ outstandingPollsMap' =
                  getTaskRegister(outstandingPollsMap, id, IF n.isParent THEN 0 ELSE p)
    /\ pollCalls' = pollCalls + 1
    /\ UNCHANGED <<udVars, callVars, storeVars, lifeVars, writerVars, ackVars, cur, histVars,
                   now, taskList, forwarder>>

\* GetTask as the frontend calls it: every poll in flight has its own poller ID.
GetTaskEnterWith(p, offsets) == GetTaskEnterAs(p, FreePollerIDs, offsets)

\* GetTask under any poller ID, one of a call in flight too, with a context that
\* has no deadline.
GetTaskEnterAnyID(p) == GetTaskEnterAs(p, PollerIDs, {})

\* GetTask with a context of any deadline.
GetTaskEnter(p) == GetTaskEnterWith(p, DeadlineOffsets)

\* GetTask with a context that has no deadline.
GetTaskEnterNoDeadline(p) == GetTaskEnterWith(p, {})

\* matcher.UpdateRatelimit(rps): the rate limit of the queue becomes rps.
UpdateRatelimit(current, rps) == rps

\* Variant of getTask that sets the rate limit only when the namespace is active.
getTaskRatelimit_ActiveOnly(ns, current, rps) ==
    IF ns = "active" THEN UpdateRatelimit(current, rps) ELSE current

\* Variant of getTask that sets the rate limit before the namespace lookup.
getTaskRatelimit_BeforeLookup(ns, current, rps) == UpdateRatelimit(current, rps)

\* getTask, the matcher's rate limit after the namespace lookup gave ns: an error
\* returns before the update; otherwise the limit is set from maxDispatchPerSecond.
getTaskRatelimit(ns, current, rps) ==
    IF ns = "error" THEN current ELSE UpdateRatelimit(current, rps)

\* getTask, from the namespace lookup on, of a call that was given one of rates
\* as maxDispatchPerSecond: an error is returned; otherwise the rate limit is
\* set and the poll of the matcher starts, on the query channel only for a
\* namespace not active here.
GetTaskLookupWith(p, rates) ==
    /\ polls[p].pc = "registered"
    /\ \E ns \in {"active", "notActive", "error"}, rps \in rates :
         /\ IF ns = "error"
            THEN GetTaskReturn(p, "error", "none")
            ELSE /\ polls' = [polls EXCEPT ![p] =
                                [@ EXCEPT !.pc = "polling", !.ns = ns, !.mode = getTaskPoll(ns),
                                          !.rps = rps]]
                 /\ UNCHANGED outstandingPollsMap
         /\ ratelimit' = getTaskRatelimit(ns, ratelimit, rps)
    /\ UNCHANGED <<udVars, storeVars, lifeVars, writerVars, ackVars, cur, histVars,
                   now, taskList, forwarder, pollCalls, gateCalls, queryOffers, stopStep, syncCtx, sql>>

\* The same, with every caller giving the same rate.
GetTaskLookup(p) == GetTaskLookupWith(p, {1})

\* matcher.Poll / PollForQuery returns, and GetTask with it.
PollReturn(p) ==
    /\ polls[p].pc = "polling"
    /\ \E o \in PollOutcomes(polls[p].mode, polls[p].child, now) :
         GetTaskReturn(p, o.result, o.via)
    /\ UNCHANGED <<udVars, callVars, storeVars, lifeVars, writerVars, ackVars, cur, histVars,
                   now, taskList, forwarder, pollCalls>>

\* CancelPoller(pollerID): the cancel function found in the map is called.
CancelPoller(pollerID) ==
    LET target == CancelPollerTarget(outstandingPollsMap, pollerID)
    IN /\ polls' = [q \in Polls |->
                      IF InFlight(q) /\ polls[q].pollerID = pollerID
                      THEN [polls[q] EXCEPT !.cancelHit = TRUE,
                                            !.child.done = @ \/ q = target]
                      ELSE IF q = target
                           THEN [polls[q] EXCEPT !.child.done = TRUE]
                           ELSE polls[q]]
       /\ UNCHANGED <<udVars, callVars, storeVars, lifeVars, writerVars, ackVars, cur, histVars,
                      now, taskList, forwarder, outstandingPollsMap, pollCalls>>

\* Half a second passes.  A poll whose context is done returns before the clock
\* moves on.
Tick ==
    /\ now < MaxTime
    /\ \A p \in Polls : InFlight(p) => ~CtxDone(polls[p].child, now)
    /\ now' = now + 1
    /\ UNCHANGED <<udVars, callVars, storeVars, lifeVars, writerVars, ackVars, cur, histVars,
                   taskList, forwarder, polls, outstandingPollsMap, pollCalls>>

\* Start of a user data manager: the owner loads the stored user data, any other
\* partition starts its fetch loop.
UDStart(i) ==
    /\ ud[i].pc = "new"
    /\ IF OwnsUserData(udPartition[i])
       THEN \E v \in 0 .. (MaxVersion - 1) :
               ud' = [ud EXCEPT ![i] = [@ EXCEPT !.pc = "owner", !.version = v,
                                                 !.ready = TRUE]]
       ELSE ud' = [ud EXCEPT ![i] = [@ EXCEPT !.pc = "loop"]]
    /\ UNCHANGED <<storeVars, lifeVars, writerVars, ackVars, cur, histVars, pollVars, callVars,
                   udPartition, udUpdate>>

\* UpdateUserData is called on manager i (on the owner: after Start).
UDUpdateUserData(i) ==
    /\ OwnsUserData(udPartition[i]) => ud[i].pc = "owner" /\ ud[i].version < MaxVersion
    /\ LET r == UpdateUserData(udPartition[i], ud[i].version)
       IN /\ ud' = [ud EXCEPT ![i] = [@ EXCEPT !.version = r.version]]
          /\ udUpdate' = [i |-> i, err |-> r.err, before |-> ud[i].version,
                          after |-> r.version]
    /\ UNCHANGED <<storeVars, lifeVars, writerVars, ackVars, cur, histVars, pollVars, callVars,
                   udPartition>>

\* The fetch loop sends its next request.
UDFetchSend(i) ==
    /\ ud[i].pc = "loop"
    /\ ud' = [ud EXCEPT ![i] = [@ EXCEPT !.pc = "request",
                                         !.req = fetchRequest(udPartition[i], ud[i]),
                                         !.sent = IF @ < 2 THEN @ + 1 ELSE 2]]
    /\ UNCHANGED <<storeVars, lifeVars, writerVars, ackVars, cur, histVars, pollVars, callVars,
                   udPartition, udUpdate>>

\* The reply resp to the request of manager i arrives and the loop handles it.
UDReply(i, resp) ==
    /\ ud[i].pc = "request"
    /\ ud' = [ud EXCEPT ![i] = [fetchResponse(@, resp) EXCEPT !.pc = "loop",
                                                              !.resp = resp]]
    /\ UNCHANGED <<storeVars, lifeVars, writerVars, ackVars, cur, histVars, pollVars, callVars,
                   udPartition, udUpdate>>

\* An arbitrary upstream answers.
UDReplyMock(i) == \E resp \in MockResponses : UDReply(i, resp)

\* The manager of the target partition answers the request.
UDReplyOK(i) ==
    /\ ud[i].pc = "request"
    /\ UDReply(i, [kind |-> "ok",
                   version |-> HandleGetUserDataRequest(ud[ud[i].req.target.id].version,
                                                        ud[i].req)])

\* The RPC fails with Unavailable.
UDReplyUnavailable(i) == UDReply(i, [kind |-> Unavailable, version |-> 0])

\* One manager, A, with every input; the other process, B, takes the lease over.
Next ==
    \/ Start("A")
    \/ Start("B")
    \/ AddTask("A")
    \/ Operation("A")
    \/ WriterAlloc("A")
    \/ WriterCreate("A")
    \/ Return("A")
    \/ ReaderRead("A")
    \/ CompleteOK("A")
    \/ CompleteErr("A")

Spec == Init /\ [][Next]_vars

\* Two managers on the same store, adding tasks of an active namespace; a task
\* read from the backlog fails to dispatch and is appended again.
NextTwo ==
    \E m \in Managers :
       \/ Start(m)
       \/ AddTaskLocal(m)
       \/ Operation(m)
       \/ WriterAlloc(m)
       \/ WriterCreate(m)
       \/ Return(m)
       \/ ReaderRead(m)
       \/ CompleteErr(m)

SpecTwo == Init /\ [][NextTwo]_vars

\* Two managers, Start statement by statement, Stop calls from outside, and
\* tasks added in between.
NextLife ==
    \E m \in Managers :
       \/ StartNext(m)
       \/ StopCAS(m)
       \/ StopSequence(m)
       \/ AddTaskLocal(m)
       \/ Operation(m)
       \/ WriterAlloc(m)
       \/ WriterCreate(m)
       \/ Return(m)

SpecLife == Init /\ [][NextLife]_vars

\* Two managers on the same store; allocTaskIDBlock is called on them with any
\* argument.
NextAlloc ==
    \E m \in Managers :
       \/ Start(m)
       \/ AllocTaskIDBlockCall(m)

SpecAlloc == Init /\ [][NextAlloc]_vars

\* One manager that spills tasks and drains them to pollers that start them.
NextDrain ==
    \/ Start("A")
    \/ AddTaskLocal("A")
    \/ Operation("A")
    \/ WriterAlloc("A")
    \/ WriterCreate("A")
    \/ Return("A")
    \/ ReaderRead("A")
    \/ CompleteOK("A")

SpecDrain == Init /\ [][NextDrain]_vars

\* One manager that spills tasks and hands them to pollers whose start succeeds
\* or fails; the other process, B, takes the lease over.
NextRedeliver ==
    \/ Start("A")
    \/ Start("B")
    \/ AddTaskLocal("A")
    \/ Operation("A")
    \/ WriterAlloc("A")
    \/ WriterCreate("A")
    \/ Return("A")
    \/ ReaderRead("A")
    \/ CompleteOK("A")
    \/ CompleteErr("A")

SpecRedeliver == Init /\ [][NextRedeliver]_vars

\* The poll side of the manager of a root partition: two GetTask calls at a time
\* from callers without a deadline, CancelPoller calls and the clock.
NextPoll ==
    \/ \E p \in Polls :
          \/ GetTaskEnterNoDeadline(p)
          \/ GetTaskLookup(p)
          \/ PollReturn(p)
    \/ \E id \in PollerIDs : CancelPoller(id)
    \/ Tick

SpecPoll == InitRoot /\ [][NextPoll]_vars

\* The same with callers that may use one poller ID for two calls at a time.
NextSharedID ==
    \/ \E p \in Polls :
          \/ GetTaskEnterAnyID(p)
          \/ GetTaskLookup(p)
          \/ PollReturn(p)
    \/ \E id \in PollerIDs : CancelPoller(id)

SpecSharedID == InitRoot /\ [][NextSharedID]_vars

\* The poll side of a manager of any partition and queue kind: one GetTask call
\* at a time, with any caller deadline.
NextOnePoll ==
    \/ GetTaskEnter(1)
    \/ GetTaskLookup(1)
    \/ PollReturn(1)
    \/ \E id \in PollerIDs : CancelPoller(id)
    \/ Tick

SpecOnePoll == InitPoll /\ [][NextOnePoll]_vars

\* One user data manager of any partition against an arbitrary upstream.
NextFetch ==
    \/ UDStart(0)
    \/ UDUpdateUserData(0)
    \/ UDFetchSend(0)
    \/ UDReplyMock(0)

SpecFetch == InitFetch /\ [][NextFetch]_vars

\* The managers of the workflow partitions of one queue; the root is updated, the
\* others fetch from their parents.  Every loop keeps running, and the RPCs of
\* every loop succeed infinitely often.
NextTree ==
    \/ UDUpdateUserData(0)
    \/ \E i \in UDManagers \ {0} :
          \/ UDFetchSend(i)
          \/ UDReplyOK(i)
          \/ UDReplyUnavailable(i)

SpecTree ==
    /\ InitTree
    /\ [][NextTree]_vars
    /\ \A i \in UDManagers \ {0} : WF_vars(UDFetchSend(i)) /\ SF_vars(UDReplyOK(i))

\* ------------------------------------------------------------------ properties
AppendedIds(m) == {appendLog[m][i].id : i \in 1..Len(appendLog[m])}

\* C1: an operation under executeWithRetry that fails with ConditionFailedError
\* is not attempted again, and when AddTask or completeTask returns that error
\* the manager has been stopped (stopped flag set, shutdown channel closed).
C1_ConditionFailedStops ==
    /\ \A m \in Managers : cur[m].pc = "op" => ~cur[m].sawCF
    /\ (lastRet.op \in {"AddTask", "completeTask"} /\ lastRet.err = ConditionFailedError)
          => /\ stopped[lastRet.m]
             /\ shutdownCh[lastRet.m] = "closed"
             /\ ~running[lastRet.m].writer

C1_Witness ==
    /\ lastRet.op = "AddTask"
    /\ lastRet.err = ConditionFailedError
    /\ lastRet.attempts = 1
    /\ ~leaseCF[lastRet.m]

\* C2: once a lease renewal of a manager has failed with ConditionFailedError
\* (in Start or in the allocation of the next block) the manager is stopped, and
\* no step after that adds a row to what the manager has written durably.
C2_LeaseLossStops ==
    [][\A m \in Managers :
          leaseCF'[m] => /\ stopped'[m]
                         /\ ~running'[m].writer
                         /\ leaseCF[m] => appendLog'[m] = appendLog[m]]_vars

C2_Witness ==
    /\ leaseCF["A"]
    /\ startState["A"] = "ok"
    /\ Len(appendLog["A"]) > 0
    /\ cur["A"].pc = "idle"

\* C3: two managers on the same store never hold the same rangeID, and no task
\* ID is appended twice, by the same manager or by the two of them.
C3_UniqueOwnerAndIds ==
    /\ \A m1, m2 \in Managers :
          (m1 # m2 /\ dbRangeID[m1] > 0) => dbRangeID[m1] # dbRangeID[m2]
    /\ \A m1, m2 \in Managers :
          \A i \in 1..Len(appendLog[m1]), j \in 1..Len(appendLog[m2]) :
             (m1 # m2 \/ i # j) => appendLog[m1][i].id # appendLog[m2][j].id
    /\ \A r1, r2 \in storeTasks : r1.id = r2.id => r1 = r2

C3_Witness ==
    /\ Len(appendLog["A"]) > 0
    /\ Len(appendLog["B"]) > 0
    /\ lastRet.err = ConditionFailedError
    /\ \E m \in Managers : stopped[m] /\ dbRangeID[m] > 0 /\ dbRangeID[m] < storeRangeID

\* C4: the IDs a manager appends are strictly increasing; the writer's block is
\* the block [(r-1)*RangeSize+1, r*RangeSize] of the manager's rangeID r, and
\* lies above every ID the manager has appended.
C4_IdsIncrease ==
    \A m \in Managers :
       /\ \A i, j \in 1..Len(appendLog[m]) :
             i < j => appendLog[m][i].id < appendLog[m][j].id
       /\ \A id \in AppendedIds(m) : id < taskIDBlock[m].start
       /\ startState[m] = "ok" =>
             /\ taskIDBlock[m].end = dbRangeID[m] * RangeSize
             /\ taskIDBlock[m].start >= (dbRangeID[m] - 1) * RangeSize + 1
             /\ taskIDBlock[m].start <= taskIDBlock[m].end + 1

C4_Witness ==
    /\ Len(appendLog["A"]) > RangeSize
    /\ startState["B"] = "new"

\* C5: after Start has seeded it, a manager's ack level never decreases,
\* whatever the order of completions.
C5_AckLevelMonotonic ==
    [][\A m \in Managers : startState[m] = "ok" => ackLevel'[m] >= ackLevel[m]]_vars

C5_Witness ==
    \E m \in Managers :
       /\ startState[m] = "ok"
       /\ completed[m] # {}
       /\ ackLevel[m] > storeAckLevel

\* C6: ackLevel <= readLevel; every outstanding ID lies in (ackLevel, readLevel];
\* a completed ID stays above the ack level only while a lower ID is outstanding,
\* so the ack level covers exactly the completed prefix.
C6_AckWindow ==
    \A m \in Managers :
       /\ ackLevel[m] <= readLevel[m]
       /\ \A i \in outstanding[m] : ackLevel[m] < i /\ i <= readLevel[m]
       /\ \A c \in completed[m] :
             /\ ackLevel[m] < c /\ c <= readLevel[m]
             /\ \E o \in outstanding[m] : o < c
       /\ outstanding[m] \cap completed[m] = {}

C6_Witness ==
    \E m \in Managers :
       /\ outstanding[m] # {}
       /\ completed[m] # {}
       /\ ackLevel[m] < readLevel[m]
       /\ lastRet.op = "completeTask"

\* C7: completeTask of a failed dispatch acknowledges the old ID only after the
\* task was appended again under a higher ID; a task that was appended and has
\* not been dispatched has a durable row above the ack level of every manager.
C7_ReappendBeforeAck ==
    /\ (lastRet.op = "completeTask" /\ lastRet.attempts > 0 /\ lastRet.acked)
          => /\ lastRet.appended
             /\ lastRet.err = NoErr
             /\ lastRet.newId > lastRet.taskId
    /\ \A m \in Managers : \A i \in 1..Len(appendLog[m]) :
          appendLog[m][i].payload \notin dispatched
             => \E r \in storeTasks :
                   /\ r.payload = appendLog[m][i].payload
                   /\ \A n \in Managers : r.id > ackLevel[n]

C7_Witness ==
    /\ lastRet.op = "completeTask"
    /\ lastRet.attempts > 0
    /\ lastRet.acked
    /\ lastRet.payload \notin dispatched
    /\ \A r \in storeTasks : r.id # lastRet.taskId

\* C8: a sync-matched task writes no row and its ID, syncMatchTaskId, is never
\* stored and never reaches the ack manager or the reader's buffer.
C8_SyncMatchLeavesNoTrace ==
    /\ \A r \in storeTasks : r.id # syncMatchTaskId
    /\ \A m \in Managers :
          /\ syncMatchTaskId \notin ackArgs[m]
          /\ syncMatchTaskId \notin AppendedIds(m)
          /\ \A t \in taskBuffer[m] : t.id # syncMatchTaskId
    /\ (lastRet.op = "AddTask" /\ lastRet.syncMatch)
          => /\ ~lastRet.appended
             /\ \A m \in Managers : \A i \in 1..Len(appendLog[m]) :
                   appendLog[m][i].payload # lastRet.payload
             /\ \A r \in storeTasks : r.payload # lastRet.payload

C8_Witness ==
    /\ lastRet.op = "AddTask"
    /\ lastRet.syncMatch
    /\ lastRet.err = NoErr
    /\ lastRet.payload \in dispatched
    /\ ackLevel[lastRet.m] > 0

\* C9: AddTask of a forwarded task in an active namespace whose sync match does
\* not succeed returns "remote sync match failed" and appends nothing.
C9_ForwardedNotAppended ==
    (lastRet.op = "AddTask" /\ lastRet.ns = "active" /\ lastRet.fwd /\ ~lastRet.syncMatch)
       => /\ lastRet.err = errRemoteSyncMatchFailed
          /\ ~lastRet.appended
          /\ ~lastRet.signalled
          /\ \A m \in Managers : \A i \in 1..Len(appendLog[m]) :
                appendLog[m][i].payload # lastRet.payload

C9_Witness ==
    /\ lastRet.op = "AddTask"
    /\ lastRet.fwd
    /\ lastRet.err = errRemoteSyncMatchFailed
    /\ lastRet.attempts = 1

\* C10: AddTask in a namespace that is not active makes no sync-match attempt and
\* goes to the durable append, with syncMatch = false, forwarded or not.
C10_NotActiveAppends ==
    /\ \A m \in Managers :
          (cur[m].op = "AddTask" /\ cur[m].ns = "notActive") => ~cur[m].triedSync
    /\ (lastRet.op = "AddTask" /\ lastRet.ns = "notActive")
          => /\ ~lastRet.triedSync
             /\ ~lastRet.syncMatch
             /\ lastRet.err # errRemoteSyncMatchFailed
             /\ lastRet.err = NoErr <=> lastRet.appended

C10_Witness ==
    /\ lastRet.op = "AddTask"
    /\ lastRet.ns = "notActive"
    /\ lastRet.fwd
    /\ lastRet.appended

\* C11: AddTask signals the task reader exactly when it returns a nil error, and
\* a nil error means the task was sync matched or appended durably.
C11_SignalIffNilError ==
    lastRet.op = "AddTask"
       => /\ lastRet.signalled <=> lastRet.err = NoErr
          /\ lastRet.err = NoErr => (lastRet.syncMatch \/ lastRet.appended)

C11_Witness ==
    /\ lastRet.op = "AddTask"
    /\ lastRet.signalled
    /\ lastRet.appended
    /\ lastRet.attempts > 1

\* C12: in a run of one manager without store faults, failed dispatches or
\* another owner, the tasks it appends get consecutive IDs; the reader hands
\* rows on in ID order; once every appended task is acknowledged the ack level
\* is the last ID; completeTask runs the GC with the new ack level, and a GC
\* delete removes every row up to it.
C12_Undisturbed(m) ==
    /\ faults = 0
    /\ dispatchFails = 0
    /\ \A n \in Managers \ {m} : startState[n] = "new"

C12_Drained(m) ==
    /\ Len(appendLog[m]) > 0
    /\ readLevel[m] = appendLog[m][Len(appendLog[m])].id
    /\ outstanding[m] = {}

C12_SpillState ==
    /\ \A m \in Managers : C12_Undisturbed(m) =>
          /\ \A i \in 1..(Len(appendLog[m]) - 1) :
                appendLog[m][i + 1].id = appendLog[m][i].id + 1
          /\ \A id \in AppendedIds(m) : id <= dbRangeID[m] * RangeSize
          /\ C12_Drained(m) =>
                /\ ackLevel[m] = appendLog[m][Len(appendLog[m])].id
                /\ completed[m] = {}
    /\ (lastRet.op = "completeTask" /\ lastRet.acked) => lastRet.gc = ackLevel[lastRet.m]

C12_SpillStep ==
    /\ \A m \in Managers : \A t \in taskBuffer'[m] \ taskBuffer[m] :
          /\ \A x \in ackArgs[m] : x < t.id
          /\ ~ \E r \in storeTasks : readLevel[m] < r.id /\ r.id < t.id
    /\ storeTasks \ storeTasks' # {} =>
          \E m \in Managers : storeTasks' = {r \in storeTasks : r.id > ackLevel'[m]}

C13_AddTaskAfterStopFails ==
    (lastRet.op = "AddTask" /\ lastRet.afterCF)
       => /\ lastRet.err # NoErr
          /\ ~lastRet.syncMatch
          /\ ~lastRet.appended

\* What holds of such a call: nothing is appended, and the error is nil only
\* for a sync match.
C13_NoAppendAfterStop ==
    (lastRet.op = "AddTask" /\ lastRet.afterCF)
       => /\ ~lastRet.appended
          /\ lastRet.err = NoErr <=> lastRet.syncMatch

\* C14: over any number of Stop calls, from outside or from the manager itself,
\* one after another or overlapping, the shutdown sequence (close the shutdown
\* channel, stop writer and reader, remove the manager from the registry) runs
\* once; a call on a manager that is already stopped changes nothing.
C14_StopState ==
    \A m \in Managers :
       /\ registry[m].removeCalls \in {0, 2}
       /\ shutdownCh[m] = "closed" <=> registry[m].removeCalls = 2
       /\ registry[m].present <=> registry[m].removeCalls = 0
       /\ shutdownCh[m] = "closed" =>
             /\ stopped[m]
             /\ ~running[m].writer
             /\ ~running[m].reader

C14_StopStep ==
    \A m \in Managers :
       /\ stopped[m] => stopped'[m]
       /\ shutdownCh[m] = "closed" =>
             /\ shutdownCh'[m] = "closed"
             /\ registry'[m] = registry[m]
             /\ running'[m] = running[m]
       /\ (stopped[m] /\ stopCalls'[m] > stopCalls[m]) =>
             /\ shutdownCh'[m] = shutdownCh[m]
             /\ registry'[m] = registry[m]
             /\ running'[m] = running[m]

C14_StopIdempotent == [](C14_StopState) /\ [][C14_StopStep]_vars

C14_Witness ==
    /\ stopCalls["A"] >= 2
    /\ startState["A"] = "ok"
    /\ shutdownCh["A"] = "closed"
    /\ registry["A"].removeCalls = 2
    /\ cfStopped["A"]

\* C20: Start renews the lease first, then seeds the ack level with the
\* persisted one, then starts the writer with the block of the rangeID it
\* obtained, then starts the reader; when the renewal fails it stops the manager
\* and returns the error, with the ack level not seeded and neither writer nor
\* reader started.
C20_StartOrder ==
    /\ \A m \in Managers :
          LET c == cur[m]
          IN c.op = "Start" =>
               /\ c.err = NoErr =>
                     /\ c.rangeID > 0 /\ dbRangeID[m] = c.rangeID
                     /\ c.ackLevel = storeAckLevel
                     /\ c.step >= 2 => ackLevel[m] = c.ackLevel /\ readLevel[m] >= c.ackLevel
                     /\ c.step < 2 => ackLevel[m] = 0 /\ readLevel[m] = 0
                     /\ c.step >= 3 <=> running[m].writer
                     /\ c.step >= 3 <=> taskIDBlock[m] = rangeIDToTaskIDBlock(c.rangeID)
                     /\ c.step >= 3 => maxReadLevel[m] = taskIDBlock[m].start - 1
                     /\ c.step >= 4 <=> running[m].reader
                     /\ ~stopped[m]
               /\ c.err # NoErr =>
                     /\ stopped[m] /\ shutdownCh[m] = "closed"
                     /\ ackLevel[m] = 0 /\ readLevel[m] = 0
                     /\ taskIDBlock[m].end = 0
                     /\ ~running[m].writer /\ ~running[m].reader
    /\ (lastRet.op = "Start" /\ lastRet.err # NoErr) =>
          /\ startState[lastRet.m] = "failed"
          /\ stopped[lastRet.m] /\ shutdownCh[lastRet.m] = "closed"
          /\ ackLevel[lastRet.m] = 0 /\ readLevel[lastRet.m] = 0
          /\ taskIDBlock[lastRet.m].end = 0
          /\ ~running[lastRet.m].writer /\ ~running[lastRet.m].reader
    /\ \A m \in Managers : startState[m] = "ok" => taskIDBlock[m].end > 0

C20_Witness ==
    /\ cur["A"].op = "Start"
    /\ cur["A"].step = 4
    /\ cur["A"].ackLevel = 1
    /\ lastRet.op = "Start"
    /\ lastRet.m = "B"
    /\ lastRet.err = ConditionFailedError

C16_NoEntryOf(p) ==
    outstandingPollsMap[polls[p].pollerID].present =>
       \E q \in Polls \ {p} : InFlight(q) /\ polls[q].pollerID = polls[p].pollerID

\* C16, as claimed: a GetTask call that CancelPoller found in flight under its
\* poller ID has its poll context cancelled, returns an empty task and not an
\* error, and has no entry in the map afterwards.
C16_CancelledPollReturnsEmpty ==
    \A p \in Polls :
       polls[p].cancelHit =>
          /\ InFlight(p) => CtxDone(polls[p].child, now)
          /\ polls[p].pc = "returned" =>
                /\ polls[p].result = "empty"
                /\ C16_NoEntryOf(p)

C16_CancelState ==
    \A p \in Polls :
       polls[p].cancelHit =>
          /\ InFlight(p) => CtxDone(polls[p].child, now)
          /\ polls[p].pc = "returned" =>
                /\ polls[p].result \in {"empty", "task", "query", "error"}
                /\ polls[p].result = "error" <=> polls[p].mode = "none"
                /\ polls[p].mode = "PollForQuery" => polls[p].result # "task"
                /\ C16_NoEntryOf(p)

C16_CancelStep ==
    now' > now => \A p \in Polls : ~(InFlight(p) /\ polls[p].cancelHit)

\* C16, amended: a GetTask call that CancelPoller found in flight under its
\* poller ID has its poll context cancelled and returns before the clock moves
\* on: with the error of the namespace lookup if that fails before the poll,
\* otherwise with what the poll ends with on a done context (the empty task, or
\* a task handed over in the same race); it has no entry in the map afterwards.
C16_CancelledPollReturns ==
    [](C16_CancelState) /\ [][C16_CancelStep]_vars

\* A call registered as p7 was polling, with its deadline still ahead and a
\* caller's context that is not done, when CancelPoller("p7") came; it returned
\* the empty task and p7 is not in the map.
C16_Witness ==
    \E p \in Polls :
       /\ polls[p].pc = "returned"
       /\ polls[p].pollerID = "p7"
       /\ polls[p].cancelHit
       /\ polls[p].result = "empty"
       /\ ~polls[p].parent.done
       /\ polls[p].child.deadline > now
       /\ ~outstandingPollsMap["p7"].present

\* C18: a GetTask call that found the namespace not active on this cluster polls
\* the query channel only (PollForQuery) and returns a query task or the empty
\* task, never a regular task.
C18_NotActiveServesQueriesOnly ==
    \A p \in Polls :
       polls[p].pc \in {"polling", "returned"} /\ polls[p].ns = "notActive" =>
          /\ polls[p].mode = "PollForQuery"
          /\ polls[p].pc = "returned" => polls[p].result \in {"query", "empty"}

\* Of two calls, the one that found the namespace not active returned a query
\* task, the one that found it active a regular task.
C18_Witness ==
    \E p, q \in Polls :
       /\ polls[p].pc = "returned"
       /\ polls[p].ns = "notActive"
       /\ polls[p].result = "query"
       /\ polls[q].pc = "returned"
       /\ polls[q].mode = "Poll"
       /\ polls[q].result = "task"

\* The GetTask call of slot p returned the empty task.
C17_ReturnedEmpty(p) == polls[p].pc = "returned" /\ polls[p].result = "empty"

\* The context the call polled with was cancelled: by CancelPoller, or it is the
\* caller's context, which was done at the call.
C17_Cancelled(p) == polls[p].child.done

C19_ForwardedPoll == \E p \in Polls : polls[p].via = "parent"

C29_BlockOf(rangeID) ==
    [start |-> (rangeID - 1) * RangeSize + 1, end |-> rangeID * RangeSize]

\* C29: allocTaskIDBlock(prevBlockEnd) renews the lease only if the end of the
\* block of the current rangeID equals prevBlockEnd.  On a mismatch it returns an
\* error and the stored and the in-memory rangeID are unchanged; on a match with a
\* successful renewal it returns the block of the new rangeID; on a failed renewal
\* it returns the error and an empty block.
C29_AllocChecksPrevBlockEnd ==
    lastRet.op = "allocTaskIDBlock" =>
       LET match == C29_BlockOf(lastRet.before.db).end = lastRet.prevBlockEnd
           empty == [start |-> 0, end |-> 0]
       IN /\ lastRet.after.store # lastRet.before.store => match
          /\ ~match =>
                /\ lastRet.err = errInvalidState
                /\ lastRet.block = empty
                /\ lastRet.after = lastRet.before
          /\ match /\ lastRet.err = NoErr =>
                /\ lastRet.after.store = lastRet.before.store + 1
                /\ lastRet.after.db = lastRet.after.store
                /\ lastRet.block = C29_BlockOf(lastRet.after.db)
          /\ match /\ lastRet.err # NoErr =>
                /\ lastRet.err \in {ConditionFailedError, TransientError}
                /\ lastRet.block = empty
                /\ lastRet.after = lastRet.before

\* A call with a prevBlockEnd that is not the end of the current block was
\* refused on a manager that holds the lease, which another call had renewed.
C29_Witness ==
    /\ lastRet.op = "allocTaskIDBlock"
    /\ lastRet.err = errInvalidState
    /\ lastRet.before.db = lastRet.before.store
    /\ lastRet.before.db >= 2
    /\ lastRet.prevBlockEnd = C29_BlockOf(lastRet.before.db - 1).end

\* A step in which completeTask(task, nil) is called on m: a task leaves the
\* buffer and no re-append is started.
C30_CompletedWithoutError(m) ==
    /\ taskBuffer'[m] # taskBuffer[m]
    /\ taskBuffer'[m] \subseteq taskBuffer[m]
    /\ cur' = cur

\* C30: when a backlog task is completed without error, completeTask makes no
\* store append and no reader signal: it acknowledges the task's ID in the ack
\* manager and then runs the GC with exactly the ack level the acknowledgement
\* returned.
C30_CompleteWithoutErrorAcksThenGC ==
    [][\A m \in Managers :
          C30_CompletedWithoutError(m) =>
             LET t == CHOOSE t \in taskBuffer[m] \ taskBuffer'[m] : TRUE
             IN /\ lastRet'.op = "completeTask" /\ lastRet'.m = m
                /\ lastRet'.taskId = t.id
                /\ lastRet'.err = NoErr /\ lastRet'.attempts = 0
                /\ ~lastRet'.appended /\ appendLog' = appendLog
                /\ storeTasks' \subseteq storeTasks
                /\ ~lastRet'.signalled
                /\ lastRet'.acked
                /\ ackArgs'[m] = ackArgs[m] \cup {t.id}
                /\ lastRet'.gc = ackLevel'[m]
                /\ storeTasks' \in {taskGCRun(storeTasks, ackLevel'[m], fire) :
                                       fire \in BOOLEAN}]_vars

\* The second backlog task was completed without error after the first, and the
\* GC ran with the ack level that its acknowledgement moved up to it.
C30_Witness ==
    /\ lastRet.op = "completeTask"
    /\ lastRet.attempts = 0 /\ lastRet.err = NoErr
    /\ lastRet.acked /\ ~lastRet.signalled
    /\ lastRet.taskId >= 2
    /\ lastRet.gc = lastRet.taskId
    /\ ackLevel[lastRet.m] = lastRet.taskId

\* C27: in the partition tree of one workflow queue an update on the root raises
\* the version by exactly one, and after each update every other partition's
\* GetUserData eventually returns a version that is at least the root's new one,
\* also when fetches fail with Unavailable in between.
C27_UpdatesPropagate ==
    /\ [][ud'[0].version \in {ud[0].version, ud[0].version + 1}]_vars
    /\ \A v \in 1 .. MaxVersion :
          (ud[0].version = v) ~> (\A i \in UDManagers : ud[i].version >= v)

\* The root was updated twice and every partition of the tree, the one on the
\* second level too, returns the root's version; the last fetch of partition 1
\* failed with Unavailable.
C27_Witness ==
    /\ udUpdate = [i |-> 0, err |-> NoErr, before |-> 1, after |-> 2]
    /\ \A i \in UDManagers : ud[i].version = ud[0].version
    /\ ud[1].resp.kind = Unavailable
    /\ ud[4].req.target.id = 1

\* A step in which the reply to the request of manager i is handled.
UDReplied(i) == ud[i].pc = "request" /\ ud'[i].pc = "loop"

\* C21: UpdateUserData on a partition other than the root workflow partition of a
\* normal queue (a non-root workflow partition, an activity partition, a sticky
\* queue) fails with the fixed error and leaves the user data and its version
\* unchanged.
C21_UpdateOnNonRootFails ==
    /\ [](/\ udUpdate.i # -1
          /\ ~OwnsUserData(udPartition[udUpdate.i])
          => /\ udUpdate.err = errUserDataNoMutateNonRoot
             /\ udUpdate.after = udUpdate.before)
    /\ [][\A i \in UDManagers :
             (udUpdate' # udUpdate /\ udUpdate'.i = i /\ ~OwnsUserData(udPartition[i]))
                => ud'[i] = ud[i]]_vars

\* UpdateUserData failed on activity partition 0, which has fetched version 1 and
\* still has it.
C21_Witness ==
    /\ udUpdate.i = 0
    /\ udPartition[0] = NormalPartition("activity", 0)
    /\ udUpdate.err = errUserDataNoMutateNonRoot
    /\ udUpdate.before = 1
    /\ ud[0].version = 1

\* C22 as stated: every request carries the last known version, the first request
\* has WaitNewData = false and every later request has WaitNewData = true.
C22_OnlyFirstRequestPrimes ==
    \A i \in UDManagers :
       ud[i].pc = "request" =>
          /\ ud[i].req.version = ud[i].version
          /\ ud[i].req.wait <=> ud[i].sent >= 2

\* C22, amended: every request carries the last known version; the first request
\* and every request sent before a fetch has succeeded have WaitNewData = false,
\* every request sent after a successful reply has WaitNewData = true.
C22_RequestsPrimeUntilFirstSuccess ==
    \A i \in UDManagers :
       ud[i].pc = "request" =>
          /\ ud[i].req.version = ud[i].version
          /\ ud[i].sent = 1 => ~ud[i].req.wait
          /\ ud[i].req.wait <=> ud[i].fetched

\* A long poll that carries version 1, sent after the reply with version 1.
C22_Witness ==
    /\ ud[0].pc = "request"
    /\ ud[0].req.wait
    /\ ud[0].req.version = 1
    /\ ud[0].resp = [kind |-> "ok", version |-> 1]

\* The parents of the partitions in a tree of degree 3.
C23_Parents == (1 :> 0) @@ (2 :> 0) @@ (4 :> 1) @@ (12 :> 3) @@ (31 :> 10)

\* C23: the fetch target is always of workflow type: the parent for a non-root
\* workflow partition (partition 10 for partition 31 with degree 3), the root
\* workflow partition of the same queue for an activity partition, the root of the
\* paired normal queue for a sticky queue.
C23_FetchTarget ==
    \A i \in UDManagers :
       ud[i].req # NoReq =>
          LET p == udPartition[i]
              target == ud[i].req.target
          IN /\ target.type = "workflow"
             /\ target.name = p.normalName
             /\ target.id = IF p.kind = "normal" /\ p.type = "workflow"
                            THEN C23_Parents[p.id]
                            ELSE 0

\* Partition 31 has sent a request to partition 10.
C23_Witness ==
    /\ udPartition[0] = NormalPartition("workflow", 31)
    /\ ud[0].pc = "request"
    /\ ud[0].req.target = [name |-> "tq", type |-> "workflow", id |-> 10]

\* C24: a manager that fetches is not initialized while its fetches have only
\* failed with Unavailable, and such a fetch is retried; it becomes initialized
\* exactly when the first successful fetch returns, and GetUserData then returns
\* the fetched data.
C24_InitializedByFirstSuccess ==
    /\ [](\A i \in UDManagers :
             /\ (~OwnsUserData(udPartition[i]) /\ ~ud[i].unimpl)
                   => (ud[i].ready <=> ud[i].fetched)
             /\ (ud[i].pc = "loop" /\ ud[i].resp.kind = Unavailable)
                   => ENABLED UDFetchSend(i))
    /\ [][\A i \in UDManagers :
             UDReplied(i) =>
                /\ ud'[i].resp.kind = Unavailable =>
                      /\ ud'[i].ready = ud[i].ready
                      /\ ud'[i].version = ud[i].version
                /\ (ud'[i].fetched /\ ~ud[i].fetched) =>
                      /\ ud'[i].resp.kind = "ok"
                      /\ ud'[i].ready
                      /\ ud'[i].version = ud'[i].resp.version]_vars

\* The first successful fetch, which followed a fetch that failed with
\* Unavailable, returned version 1: the manager is initialized and has version 1.
C24_Witness ==
    /\ ud[0].pc = "loop"
    /\ ud[0].sent = 2
    /\ ~ud[0].unimpl
    /\ ~ud[0].req.wait
    /\ ud[0].resp = [kind |-> "ok", version |-> 1]
    /\ ud[0].ready
    /\ ud[0].version = 1

\* C25: after an Unimplemented reply the manager is initialized with nil user
\* data; the fetch loop stays active, and a later successful reply replaces the
\* nil data by the fetched data.
C25_UnimplementedMarksReady ==
    /\ [](\A i \in UDManagers :
             /\ (ud[i].unimpl /\ ~ud[i].fetched) => (ud[i].ready /\ ud[i].version = 0)
             /\ (ud[i].pc = "loop" /\ ud[i].resp.kind = Unimplemented)
                   => ENABLED UDFetchSend(i))
    /\ [][\A i \in UDManagers :
             UDReplied(i) =>
                /\ ud'[i].resp.kind = Unimplemented =>
                      /\ ud'[i].ready
                      /\ ud'[i].version = ud[i].version
                /\ (ud[i].unimpl /\ ud[i].version = 0 /\ ud'[i].resp.kind = "ok")
                      => ud'[i].version = ud'[i].resp.version]_vars

\* After an Unimplemented reply a priming request was answered with version 2,
\* which the manager now has.
C25_Witness ==
    /\ ud[0].unimpl
    /\ ud[0].pc = "loop"
    /\ ~ud[0].req.wait
    /\ ud[0].resp = [kind |-> "ok", version |-> 2]
    /\ ud[0].ready
    /\ ud[0].version = 2

\* C26: on every partition the version GetUserData returns never decreases: a
\* reply replaces the local copy only if its version is greater than the local
\* one.
C26_VersionMonotonic ==
    [][\A i \in UDManagers :
          /\ ud'[i].version >= ud[i].version
          /\ UDReplied(i) =>
                ud'[i].version = IF /\ ud'[i].resp.kind = "ok"
                                    /\ ud'[i].resp.version > ud[i].version
                                 THEN ud'[i].resp.version
                                 ELSE ud[i].version]_vars

\* A reply with version 1 reached a manager that has version 2, and was ignored.
C26_Witness ==
    /\ ud[0].pc = "loop"
    /\ ud[0].resp = [kind |-> "ok", version |-> 1]
    /\ ud[0].version = 2

\* C28 as stated: a request sent before the first successful reply carries
\* WaitNewData = false and version 0, and WaitNewData = true is used only after a
\* reply with user data has been received.
C28_LongPollOnlyAfterData ==
    \A i \in UDManagers :
       ud[i].pc = "request" =>
          /\ ~ud[i].fetched => (~ud[i].req.wait /\ ud[i].req.version = 0)
          /\ ud[i].req.wait => ud[i].version > 0

\* C28, amended: a request sent before the first successful reply, a retry after
\* Unavailable or Unimplemented too, carries WaitNewData = false and version 0;
\* WaitNewData = true is used only after a successful reply, with user data or
\* with a nil body.
C28_LongPollOnlyAfterSuccess ==
    \A i \in UDManagers :
       ud[i].pc = "request" =>
          /\ ~ud[i].fetched => (~ud[i].req.wait /\ ud[i].req.version = 0)
          /\ ud[i].req.wait => (ud[i].fetched /\ ud[i].ready)

\* A retry after an Unimplemented reply: the manager is initialized, and the
\* request is the second or a later one and carries WaitNewData = false and
\* version 0.
C28_Witness ==
    /\ ud[0].pc = "request"
    /\ ud[0].sent = 2
    /\ ud[0].resp.kind = Unimplemented
    /\ ud[0].ready
    /\ ~ud[0].req.wait
    /\ ud[0].req.version = 0

\* A step in which completeTask(task, err) with err # nil returns on m.
C31_CompleteErrReturns(m) ==
    /\ cur[m].op = "completeTask"
    /\ cur[m].pc = "resp"
    /\ cur'[m].pc = "idle"

\* C31: if the re-append of a task whose dispatch failed fails too, after its
\* retries, the manager is stopped and the old task ID is not acknowledged: the
\* ack level and the outstanding set are unchanged, the GC is not run, the reader
\* is not signalled, and the task's row is still in the store above the ack level.
C31_FailedReappendStops ==
    [][\A m \in Managers :
          (C31_CompleteErrReturns(m) /\ cur[m].err # NoErr) =>
             /\ lastRet'.op = "completeTask" /\ lastRet'.err = cur[m].err
             /\ stopped'[m] /\ shutdownCh'[m] = "closed"
             /\ ~lastRet'.acked /\ ~lastRet'.signalled /\ lastRet'.gc = -1
             /\ ackLevel'[m] = ackLevel[m]
             /\ outstanding'[m] = outstanding[m]
             /\ completed'[m] = completed[m]
             /\ ackArgs'[m] = ackArgs[m]
             /\ storeTasks' = storeTasks
             /\ cur[m].taskId \in outstanding'[m]
             /\ \E r \in storeTasks' : r.id = cur[m].taskId /\ r.id > ackLevel'[m]]_vars

\* The re-append failed with a transient error until the retry policy expired, no
\* lease was lost, and completeTask stopped the manager with the task outstanding.
C31_Witness ==
    /\ lastRet.op = "completeTask"
    /\ lastRet.err = TransientError
    /\ lastRet.attempts >= 1
    /\ ~cfStopped[lastRet.m]
    /\ stopped[lastRet.m]
    /\ lastRet.taskId \in outstanding[lastRet.m]

\* C32: an error that the sync-match attempt returns together with matched = false
\* never fails the AddTask by itself: a task that was not forwarded from a child
\* is then appended through the writer, and AddTask returns the result of that
\* append.
C32_OfferErrorFallsBack ==
    /\ \A m \in Managers :
          (cur[m].op = "AddTask" /\ cur[m].offerFailed /\ ~cur[m].fwd)
             => /\ cur[m].pc \in {"alloc", "create", "resp", "op"}
                /\ cur[m].err \in {NoErr, ConditionFailedError, TransientError, errShutdown}
                /\ ~cur[m].syncMatch
    /\ (lastRet.op = "AddTask" /\ lastRet.offerFailed)
          => /\ lastRet.err # "offer failed"
             /\ ~lastRet.syncMatch
             /\ lastRet.fwd => lastRet.err = errRemoteSyncMatchFailed
             /\ ~lastRet.fwd =>
                   /\ lastRet.err \in {NoErr, ConditionFailedError, TransientError,
                                       errShutdown}
                   /\ lastRet.appended <=> lastRet.err = NoErr
                   /\ lastRet.appended =>
                         \E i \in 1..Len(appendLog[lastRet.m]) :
                            appendLog[lastRet.m][i] =
                               [id |-> lastRet.newId, payload |-> lastRet.payload]

\* The sync-match attempt of a task that was not forwarded returned an error
\* without a match, and AddTask appended the task and returned nil.
C32_Witness ==
    /\ lastRet.op = "AddTask"
    /\ lastRet.offerFailed
    /\ ~lastRet.fwd
    /\ lastRet.err = NoErr
    /\ lastRet.appended
    /\ \E r \in storeTasks : r.payload = lastRet.payload

\* C33: the error "remote sync match failed" that AddTask returns for a forwarded
\* task is neither retried by executeWithRetry nor fatal: the manager is not
\* stopped by it.  executeWithRetry stops the manager only on
\* ConditionFailedError and retries only transient persistence errors.
C33_RemoteSyncMatchFailedIsBenign ==
    [][\A m \in Managers :
          (cur[m].pc = "resp" /\ cur'[m] # cur[m]) =>
             /\ cur[m].err = errRemoteSyncMatchFailed =>
                   /\ cur'[m].pc = "idle"
                   /\ lastRet'.err = errRemoteSyncMatchFailed
                   /\ lastRet'.attempts = 1
                   /\ stopped'[m] = stopped[m]
                   /\ running'[m] = running[m]
                   /\ cfStopped'[m] = cfStopped[m]
             /\ cur'[m].pc = "op" => cur[m].err = TransientError
             /\ (cfStopped'[m] /\ ~cfStopped[m]) => cur[m].err = ConditionFailedError
             /\ (cur[m].op = "AddTask" /\ stopped'[m] /\ ~stopped[m])
                   => cur[m].err = ConditionFailedError]_vars

\* AddTask of a forwarded task returned "remote sync match failed" after one
\* attempt, and the manager is running as before.
C33_Witness ==
    /\ lastRet.op = "AddTask"
    /\ lastRet.fwd
    /\ lastRet.err = errRemoteSyncMatchFailed
    /\ lastRet.attempts = 1
    /\ ~stopped[lastRet.m]
    /\ running[lastRet.m].writer
    /\ running[lastRet.m].reader

\* The map holds, under the poller ID of the call in slot p, the cancel function
\* of that call's child context.
C34_OwnHandle(p) ==
    /\ outstandingPollsMap[polls[p].pollerID].present
    /\ outstandingPollsMap[polls[p].pollerID].cancel = (IF polls[p].isParent THEN 0 ELSE p)

\* C34, as claimed: while a GetTask with a poller ID is in flight the map holds
\* that call's own cancel function under the ID, also when another GetTask with
\* the same poller ID started or returned in the meantime.
C34_OwnHandleAlways ==
    \A p \in Polls :
       (InFlight(p) /\ polls[p].pollerID # "") => C34_OwnHandle(p)

\* C34, amended: while a GetTask with a poller ID is in flight, and no other
\* GetTask with the same poller ID was in flight at the same time, the map holds
\* that call's own cancel function under the ID, and a CancelPoller with the ID
\* cancels the call's poll context.
C34_OwnHandleUnlessShared ==
    /\ [](\A p \in Polls :
             (InFlight(p) /\ polls[p].pollerID # "" /\ ~polls[p].shared)
                => C34_OwnHandle(p))
    /\ [][\A p \in Polls :
             (/\ InFlight(p) /\ ~polls[p].shared
              /\ polls'[p].cancelHit /\ ~polls[p].cancelHit)
                => polls'[p].child.done]_vars

\* A call under p7 returned, a second call under p7 started after that and has
\* its own cancel function in the map; CancelPoller("p7") has cancelled its poll.
C34_Witness ==
    \E p, q \in Polls :
       /\ p # q
       /\ polls[q].pc = "returned" /\ polls[q].pollerID = "p7"
       /\ polls[p].pc = "polling" /\ polls[p].pollerID = "p7"
       /\ ~polls[p].shared
       /\ ~polls[p].parent.done
       /\ C34_OwnHandle(p)
       /\ polls[p].cancelHit
       /\ polls[p].child.done

\* ------------------------------------------------------- Start and Stop overlapping
\* Stop called from outside on a manager whose Start has not returned (not begun,
\* or in progress): the compare-and-swap of c.stopped.  Start does not read
\* c.stopped.
StopCASEarly(m) ==
    /\ startState[m] = "new"
    /\ EventLeft
    /\ stopCalls' = [stopCalls EXCEPT ![m] = @ + 1]
    /\ stopped' = [stopped EXCEPT ![m] = TRUE]
    /\ UNCHANGED <<pollVars, udVars, callVars, storeVars, startState, shutdownCh, running, registry, writerVars, ackVars,
                   cur, histVars>>

\* Two managers; Stop is called from outside at any time, before, during and
\* after Start.
NextStartStop ==
    \E m \in Managers :
       \/ StartNext(m)
       \/ StopCASEarly(m)
       \/ StopCAS(m)
       \/ StopSequence(m)

SpecStartStop == Init /\ [][NextStartStop]_vars

\* A step starts the writer or the reader of m.
C35_Starts(m) ==
    \/ running'[m].writer /\ ~running[m].writer
    \/ running'[m].reader /\ ~running[m].reader

\* A step in which Start of m issues its lease renewal.
C35_StartRenews(m) == cur[m].pc = "idle" /\ cur'[m].op = "Start"

GateEventLeft ==
    (nextPayload - 1) + faults + dispatchFails + StopCallsMade
       + queryOffers["A"] + queryOffers["B"]
       + Cardinality(gateCalls["A"]) + Cardinality(gateCalls["B"]) < MaxEvents

\* AddTask or DispatchQueryTask is called, at any time: the call blocks in
\* c.startWG.Wait().
GateArrive(m, call) ==
    /\ call \notin gateCalls[m]
    /\ call = "AddTask" => cur[m].pc = "idle" \/ cur[m].op = "Start"
    /\ GateEventLeft
    /\ gateCalls' = [gateCalls EXCEPT ![m] = @ \cup {call}]
    /\ UNCHANGED <<storeVars, lifeVars, writerVars, ackVars, cur, histVars, pollVars, udVars,
                   queryOffers, ratelimit, stopStep, syncCtx, sql>>

AddTaskArrive(m) == GateArrive(m, "AddTask")

DispatchQueryTaskArrive(m) == GateArrive(m, "DispatchQueryTask")

\* AddTask gets past c.startWG.Wait(): the operation runs under executeWithRetry.
AddTaskPass(m) ==
    /\ "AddTask" \in gateCalls[m]
    /\ startWG(m) = 0
    /\ cur[m].pc = "idle"
    /\ gateCalls' = [gateCalls EXCEPT ![m] = @ \ {"AddTask"}]
    /\ \E ns \in {"active", "notActive"}, fwd \in BOOLEAN :
         cur' = [cur EXCEPT ![m] = [IdleCall EXCEPT !.op = "AddTask", !.pc = "op",
                                       !.payload = nextPayload, !.ns = ns, !.fwd = fwd,
                                       !.afterCF = stopped[m] /\ cfStopped[m]]]
    /\ nextPayload' = nextPayload + 1
    /\ UNCHANGED <<pollVars, udVars, storeVars, lifeVars, writerVars, ackVars, lastRet, appendLog,
                   ackArgs, leaseCF, cfStopped, dispatched, faults, dispatchFails,
                   queryOffers, ratelimit, stopStep, syncCtx, sql>>

\* DispatchQueryTask gets past c.startWG.Wait(): it builds the query task and
\* offers it to the matcher.
DispatchQueryTaskPass(m) ==
    /\ "DispatchQueryTask" \in gateCalls[m]
    /\ startWG(m) = 0
    /\ gateCalls' = [gateCalls EXCEPT ![m] = @ \ {"DispatchQueryTask"}]
    /\ queryOffers' = [queryOffers EXCEPT ![m] = @ + 1]
    /\ UNCHANGED <<storeVars, lifeVars, writerVars, ackVars, cur, histVars, pollVars, udVars,
                   ratelimit, stopStep, syncCtx, sql>>

\* One manager, Start statement by statement; AddTask and DispatchQueryTask are
\* called at any time.
NextGate ==
    \E m \in {"A"} :
       \/ StartNext(m)
       \/ AddTaskArrive(m)
       \/ DispatchQueryTaskArrive(m)
       \/ AddTaskPass(m)
       \/ DispatchQueryTaskPass(m)
       \/ Operation(m)
       \/ WriterAlloc(m)
       \/ WriterCreate(m)
       \/ Return(m)

SpecGate == Init /\ [][NextGate]_vars

\* C36: before Start has returned, AddTask and DispatchQueryTask make no sync
\* match, no append and no query offer; once Start has returned, with or without
\* an error, no such call is held at the start gate: each can go on.
C36_NothingBeforeStart(m) ==
    startState[m] = "new" =>
       /\ cur'[m].op # "AddTask"
       /\ queryOffers'[m] = queryOffers[m]
       /\ appendLog'[m] = appendLog[m]
       /\ cur'[m].triedSync = FALSE

C36_NotBlocked(m) ==
    startState[m] # "new" =>
       /\ "AddTask" \in gateCalls[m] => ENABLED AddTaskPass(m)
       /\ "DispatchQueryTask" \in gateCalls[m] => ENABLED DispatchQueryTaskPass(m)

C36_StartGate ==
    /\ [](\A m \in Managers : C36_NotBlocked(m))
    /\ [][\A m \in Managers : C36_NothingBeforeStart(m)]_vars

\* Both calls waited while Start was in progress.
C36_Waited ==
    /\ cur["A"].op = "Start"
    /\ cur["A"].step = 3
    /\ gateCalls["A"] = {"AddTask", "DispatchQueryTask"}

\* A failed Start has returned and calls are at the gate, free to go on; a query
\* offer has been made.
C36_Witness ==
    /\ startState["A"] = "failed"
    /\ gateCalls["A"] = {"AddTask", "DispatchQueryTask"}
    /\ queryOffers["A"] = 1

\* ------------------------------------------------------- Stop, statement by statement
\* Stop is called from outside: the compare-and-swap of c.stopped; the call that
\* wins it goes on to the statements of the shutdown, a call that loses it returns.
StopCall(m) ==
    /\ startState[m] # "new"
    /\ EventLeft
    /\ stopCalls' = [stopCalls EXCEPT ![m] = @ + 1]
    /\ stopped' = [stopped EXCEPT ![m] = TRUE]
    /\ stopStep' = [stopStep EXCEPT ![m] = IF stopped[m] THEN @ ELSE 1]
    /\ UNCHANGED <<pollVars, udVars, storeVars, startState, shutdownCh, running, registry, writerVars,
                   ackVars, cur, histVars, gateCalls, queryOffers, ratelimit, syncCtx, sql>>

\* The next statement of the Stop call that won the compare-and-swap.
StopStatement(m) ==
    /\ stopStep[m] \in 1 .. Len(StopStatements)
    /\ LET stmt == StopStatements[stopStep[m]]
       IN /\ shutdownCh' = [shutdownCh EXCEPT ![m] =
                               IF stmt = "close(shutdownCh)" THEN "closed" ELSE @]
          /\ running' = [running EXCEPT ![m] =
                            [writer |-> @.writer /\ stmt # "taskWriter.Stop",
                             reader |-> @.reader /\ stmt # "taskReader.Stop"]]
          /\ registry' = [registry EXCEPT ![m] =
                             IF stmt = "removeTaskListManager"
                             THEN [present |-> FALSE, removeCalls |-> @.removeCalls + 1]
                             ELSE @]
    /\ stopStep' = [stopStep EXCEPT ![m] = @ + 1]
    /\ UNCHANGED <<pollVars, udVars, storeVars, startState, stopped, stopCalls, writerVars, ackVars,
                   cur, histVars, gateCalls, queryOffers, ratelimit, syncCtx, sql>>

\* Two managers; Stop is called from outside after Start, its statements
\* interleave with tasks being added.
NextStop ==
    \E m \in Managers :
       \/ Start(m)
       \/ StopCall(m)
       \/ StopStatement(m)
       \/ AddTaskLocal(m)
       \/ Operation(m)
       \/ WriterAlloc(m)
       \/ WriterCreate(m)
       \/ Return(m)

SpecStop == Init /\ [][NextStop]_vars

\* C37: the Stop call that takes effect calls engine.removeTaskListManager twice
\* for the manager, after writer and reader have been stopped; any other Stop
\* call does not call it.
C37_RemoveState(m) ==
    /\ registry[m].removeCalls \in 0 .. 2
    /\ registry[m].removeCalls > 0 =>
          /\ stopped[m]
          /\ shutdownCh[m] = "closed"
          /\ ~running[m].writer
          /\ ~running[m].reader
    /\ stopStep[m] > Len(StopStatements) => registry[m].removeCalls = 2
    /\ (stopped[m] /\ stopStep[m] = 0 /\ shutdownCh[m] = "closed") => registry[m].removeCalls = 2

C37_RemoveStep(m) ==
    /\ registry'[m].removeCalls >= registry[m].removeCalls
    /\ (stopped[m] /\ stopCalls'[m] > stopCalls[m]) =>
          /\ registry'[m] = registry[m]
          /\ stopStep'[m] = stopStep[m]

C37_RemovedTwice ==
    /\ [](\A m \in Managers : C37_RemoveState(m))
    /\ [][\A m \in Managers : C37_RemoveStep(m)]_vars

C37_Witness ==
    /\ stopCalls["A"] = 2
    /\ stopStep["A"] > Len(StopStatements)
    /\ registry["A"].removeCalls = 2
    /\ stopStep["B"] = 5
    /\ registry["B"].removeCalls = 1

\* ------------------------------------------------------- the rate limit of the queue
\* The rates pollers give as maxDispatchPerSecond.
Rates == {1, 2}

\* GetTask calls with different rates, two at a time, and CancelPoller calls.
NextRate ==
    \/ \E p \in Polls :
          \/ GetTaskEnterNoDeadline(p)
          \/ GetTaskLookupWith(p, Rates)
          \/ PollReturn(p)
    \/ \E id \in PollerIDs : CancelPoller(id)

SpecRate == InitRoot /\ [][NextRate]_vars

\* The namespace lookup of the GetTask call in slot p succeeds in this step.
C38_LookupOK(p) == polls[p].pc = "registered" /\ polls'[p].pc = "polling"

\* C38: a GetTask call whose namespace lookup succeeds sets the matcher's rate
\* limit to the rate it was given before its poll starts, for a namespace that
\* is not active too; nothing else changes the limit, so the limit in force is
\* that of the GetTask call that set it last.
C38_LastPollerWins ==
    [][IF \E p \in Polls : C38_LookupOK(p)
       THEN \A p \in Polls : C38_LookupOK(p) =>
               /\ ratelimit' = polls'[p].rps
               /\ polls'[p].mode = getTaskPoll(polls'[p].ns)
       ELSE ratelimit' = ratelimit]_vars

C38_Witness ==
    /\ polls[1].pc = "polling" /\ polls[1].rps = 1
    /\ polls[2].pc = "polling" /\ polls[2].rps = 2 /\ polls[2].ns = "notActive"
    /\ ratelimit = 2
    /\ pollCalls = MaxPolls

\* ------------------------------------------------------- the sync-match attempt
\* maxSyncMatchWaitTime, 200 ms in tenths of a second.
maxSyncMatchWaitTime == 2

\* time.Second, the tailroom trySyncMatch leaves, in tenths of a second.
syncMatchTailroom == 10

\* Distances of the caller's deadline from the time of the call, in tenths of a
\* second: from less than the tailroom to more than tailroom plus wait time.
SyncDeadlineOffsets == 1 .. (syncMatchTailroom + maxSyncMatchWaitTime + 1)

NoSyncCtx ==
    [pc |-> "idle", now |-> 0, parent |-> NoCtx, child |-> NoCtx, isParent |-> FALSE,
     enteredAt |-> 0, returnedAt |-> 0]

\* Variant of trySyncMatch that leaves no tailroom.
trySyncMatchContext_NoTailroom(parent, t) ==
    newChildContext(parent, maxSyncMatchWaitTime, 0, t)

\* trySyncMatch, the context of the offer, made at time t.
trySyncMatchContext(parent, t) ==
    newChildContext(parent, maxSyncMatchWaitTime, syncMatchTailroom, t)

\* Variant of trySyncMatch that does not cancel the child context.
trySyncMatchCancel_None(n) == n.ctx

\* trySyncMatch, cancel() after the offer, on what newChildContext returned: the
\* cancel function of a child cancels it, the one returned with the parent does
\* nothing.
trySyncMatchCancel(n) == IF n.isParent THEN n.ctx ELSE [n.ctx EXCEPT !.done = TRUE]

\* trySyncMatch is entered: the child context is made and the offer starts.
TrySyncMatchEnter ==
    /\ syncCtx.pc # "offer"
    /\ syncCtx.now <= MaxTime
    /\ \E parent \in ParentCtxs(syncCtx.now, SyncDeadlineOffsets) :
         LET n == trySyncMatchContext(parent, syncCtx.now)
         IN syncCtx' = [NoSyncCtx EXCEPT !.pc = "offer", !.now = syncCtx.now, !.parent = parent,
                                         !.child = n.ctx, !.isParent = n.isParent,
                                         !.enteredAt = syncCtx.now]
    /\ UNCHANGED <<storeVars, lifeVars, writerVars, ackVars, cur, histVars, pollVars, udVars,
                   gateCalls, queryOffers, ratelimit, stopStep, sql>>

\* matcher.Offer returns (matched, not matched, or with an error), and
\* trySyncMatch calls cancel and returns.
TrySyncMatchReturn ==
    /\ syncCtx.pc = "offer"
    /\ syncCtx' = [syncCtx EXCEPT !.pc = "returned", !.returnedAt = syncCtx.now,
                                  !.child = trySyncMatchCancel([ctx |-> syncCtx.child,
                                                                isParent |-> syncCtx.isParent])]
    /\ UNCHANGED <<storeVars, lifeVars, writerVars, ackVars, cur, histVars, pollVars, udVars,
                   gateCalls, queryOffers, ratelimit, stopStep, sql>>

\* A tenth of a second passes.  An offer whose context is done returns before
\* the clock moves on.
SyncTick ==
    /\ IF syncCtx.pc = "offer"
       THEN ~CtxDone(syncCtx.child, syncCtx.now)
       ELSE syncCtx.now < MaxTime
    /\ syncCtx' = [syncCtx EXCEPT !.now = @ + 1]
    /\ UNCHANGED <<storeVars, lifeVars, writerVars, ackVars, cur, histVars, pollVars, udVars,
                   gateCalls, queryOffers, ratelimit, stopStep, sql>>

NextSyncMatch ==
    \/ TrySyncMatchEnter
    \/ TrySyncMatchReturn
    \/ SyncTick

SpecSyncMatch == Init /\ [][NextSyncMatch]_vars

\* The time the attempt may wait: from its start to its context's deadline.
C39_Wait == syncCtx.child.deadline - syncCtx.enteredAt

\* What is left of the caller's deadline at the start, less the tailroom.
C39_Remaining == (syncCtx.parent.deadline - syncCtx.enteredAt) - syncMatchTailroom

\* C39: the sync-match attempt waits at most the smaller of 200 ms and what is
\* left of the caller's deadline less one second, never a negative time, and
\* 200 ms for a caller without deadline; its child context is cancelled when
\* the offer has returned; a caller's context that is done already is used as
\* it is.
C39_SyncMatchBudget ==
    syncCtx.pc # "idle" =>
       /\ syncCtx.parent.done =>
             /\ syncCtx.isParent
             /\ syncCtx.child = syncCtx.parent
             /\ syncCtx.pc = "returned" => syncCtx.returnedAt = syncCtx.enteredAt
       /\ ~syncCtx.parent.done =>
             /\ ~syncCtx.isParent
             /\ syncCtx.child.hasDeadline
             /\ C39_Wait >= 0
             /\ C39_Wait <= maxSyncMatchWaitTime
             /\ ~syncCtx.parent.hasDeadline => C39_Wait = maxSyncMatchWaitTime
             /\ syncCtx.parent.hasDeadline =>
                   C39_Wait = Min({maxSyncMatchWaitTime, Max({0, C39_Remaining})})
             /\ syncCtx.pc = "offer" =>
                   /\ ~syncCtx.child.done
                   /\ syncCtx.now <= syncCtx.child.deadline
             /\ syncCtx.pc = "returned" =>
                   /\ syncCtx.child.done
                   /\ syncCtx.returnedAt - syncCtx.enteredAt <= C39_Wait

C39_Witness ==
    /\ syncCtx.pc = "returned"
    /\ syncCtx.parent.hasDeadline
    /\ C39_Remaining = 1
    /\ syncCtx.returnedAt = syncCtx.enteredAt + 1
    /\ syncCtx.child.done
    /\ syncCtx.enteredAt > 0

\* A caller whose deadline is less than the tailroom away: the attempt does not
\* wait.
C39_WitnessNoTime ==
    /\ syncCtx.pc = "returned"
    /\ syncCtx.parent.hasDeadline
    /\ C39_Remaining < 0
    /\ C39_Wait = 0

\* ------------------------------------------------------- sql workflow store
WorkflowExecutionAlreadyStartedError == "WorkflowExecutionAlreadyStartedError"
CurrentWorkflowConditionFailedError == "CurrentWorkflowConditionFailedError"
InternalError == "Internal"
RunIDMismatchError == "assertRunIDMismatch failed"
SqlError == "sql error"

\* Run IDs, write versions, workflow states and create modes of the requests.
RunIDs == {"r1", "r2"}
LastWriteVersions == {1, 2}
WorkflowStates == {"RUNNING", "COMPLETED"}
CreateWorkflowModes == {"BrandNew", "WorkflowIDReuse", "Zombie", "ContinueAsNew", "unknown"}

NoRow == [exists |-> FALSE, runID |-> "", state |-> "", lastWriteVersion |-> 0]

\* CreateWorkflowExecution requests: the mode, the expected previous run and
\* version, and run ID and version of the new workflow snapshot.
CreateRequests ==
    [mode : CreateWorkflowModes, previousRunID : RunIDs,
     previousLastWriteVersion : LastWriteVersions, runID : RunIDs,
     lastWriteVersion : LastWriteVersions]

\* assertRunIDMismatch: an error when the two run IDs are the same.
assertRunIDMismatch(requestRunID, currentRunID) ==
    IF requestRunID = currentRunID THEN RunIDMismatchError ELSE NoErr

\* Variant of the check that lets WorkflowIDReuse replace a run that has not
\* completed.
currentRecordCheck_NoStateCheck(row, request) ==
    CASE request.mode = "BrandNew" -> WorkflowExecutionAlreadyStartedError
      [] request.mode = "WorkflowIDReuse" ->
            IF request.previousLastWriteVersion # row.lastWriteVersion
            THEN CurrentWorkflowConditionFailedError
            ELSE IF row.runID # request.previousRunID
            THEN CurrentWorkflowConditionFailedError
            ELSE NoErr
      [] request.mode = "Zombie" -> assertRunIDMismatch(request.runID, row.runID)
      [] request.mode = "ContinueAsNew" ->
            IF row.runID # request.previousRunID
            THEN CurrentWorkflowConditionFailedError
            ELSE NoErr
      [] OTHER -> InternalError

\* Variant of the check that lets ContinueAsNew replace any current run.
currentRecordCheck_AnyRun(row, request) ==
    CASE request.mode = "BrandNew" -> WorkflowExecutionAlreadyStartedError
      [] request.mode = "WorkflowIDReuse" ->
            IF request.previousLastWriteVersion # row.lastWriteVersion
            THEN CurrentWorkflowConditionFailedError
            ELSE IF row.state # "COMPLETED"
            THEN CurrentWorkflowConditionFailedError
            ELSE IF row.runID # request.previousRunID
            THEN CurrentWorkflowConditionFailedError
            ELSE NoErr
      [] request.mode = "Zombie" -> assertRunIDMismatch(request.runID, row.runID)
      [] request.mode = "ContinueAsNew" -> NoErr
      [] OTHER -> InternalError

\* createWorkflowExecutionTx, the check of a current-execution row that exists.
currentRecordCheck(row, request) ==
    CASE request.mode = "BrandNew" -> WorkflowExecutionAlreadyStartedError
      [] request.mode = "WorkflowIDReuse" ->
            IF request.previousLastWriteVersion # row.lastWriteVersion
            THEN CurrentWorkflowConditionFailedError
            ELSE IF row.state # "COMPLETED"
            THEN CurrentWorkflowConditionFailedError
            ELSE IF row.runID # request.previousRunID
            THEN CurrentWorkflowConditionFailedError
            ELSE NoErr
      [] request.mode = "Zombie" -> assertRunIDMismatch(request.runID, row.runID)
      [] request.mode = "ContinueAsNew" ->
            IF row.runID # request.previousRunID
            THEN CurrentWorkflowConditionFailedError
            ELSE NoErr
      [] OTHER -> InternalError

\* createOrUpdateCurrentExecution: the current-execution row after the call; a
\* zombie is not made the current run.
createOrUpdateCurrentExecution(row, request) ==
    IF request.mode = "Zombie"
    THEN row
    ELSE [exists |-> TRUE, runID |-> request.runID, state |-> "RUNNING",
          lastWriteVersion |-> request.lastWriteVersion]

\* createWorkflowExecutionTx: the error it returns and what it wrote in the
\* transaction, given the row it locked and the errors of its two writes.
createWorkflowExecutionTx(row, request, currentErr, snapshotErr) ==
    LET check == IF row.exists THEN currentRecordCheck(row, request) ELSE NoErr
    IN IF check # NoErr
       THEN [err |-> check, current |-> row, snapshot |-> FALSE]
       ELSE IF currentErr # NoErr
       THEN [err |-> currentErr, current |-> row, snapshot |-> FALSE]
       ELSE IF snapshotErr # NoErr
       THEN [err |-> snapshotErr, current |-> createOrUpdateCurrentExecution(row, request),
             snapshot |-> FALSE]
       ELSE [err |-> NoErr, current |-> createOrUpdateCurrentExecution(row, request),
             snapshot |-> TRUE]

\* txExecute: the transaction is committed when the function returns no error
\* and rolled back otherwise.
txExecute(before, after, err) == IF err = NoErr THEN after ELSE before

\* CreateWorkflowExecution: createWorkflowExecutionTx in a transaction.  The
\* insert of a snapshot fails for a run that has one.
CreateWorkflowExecution ==
    \E request \in CreateRequests, fault \in {"none", "current", "snapshot"} :
       /\ request.runID \in sql.executions => fault # "none"
       /\ LET currentErr == IF fault = "current" THEN SqlError ELSE NoErr
              snapshotErr == IF fault = "snapshot" THEN SqlError ELSE NoErr
              r == createWorkflowExecutionTx(sql.current, request, currentErr, snapshotErr)
              written == [current |-> r.current,
                          executions |-> IF r.snapshot THEN sql.executions \cup {request.runID}
                                         ELSE sql.executions]
              stored == txExecute([current |-> sql.current, executions |-> sql.executions],
                                  written, r.err)
          IN sql' = [current |-> stored.current, executions |-> stored.executions,
                     seq |-> 1 - sql.seq,
                     last |-> [mode |-> request.mode, previousRunID |-> request.previousRunID,
                               previousLastWriteVersion |-> request.previousLastWriteVersion,
                               runID |-> request.runID,
                               lastWriteVersion |-> request.lastWriteVersion, err |-> r.err]]
    /\ UNCHANGED <<storeVars, lifeVars, writerVars, ackVars, cur, histVars, pollVars, udVars,
                   gateCalls, queryOffers, ratelimit, stopStep, syncCtx>>

\* The current run completes (an update of the execution by its owner).
CompleteWorkflow ==
    /\ sql.current.exists
    /\ sql.current.state = "RUNNING"
    /\ sql' = [sql EXCEPT !.current.state = "COMPLETED"]
    /\ UNCHANGED <<storeVars, lifeVars, writerVars, ackVars, cur, histVars, pollVars, udVars,
                   gateCalls, queryOffers, ratelimit, stopStep, syncCtx>>

NextCreate ==
    \/ CreateWorkflowExecution
    \/ CompleteWorkflow

SpecCreate == Init /\ [][NextCreate]_vars

\* C40: with a current-execution row for the workflow ID, BrandNew fails with
\* WorkflowExecutionAlreadyStartedError; WorkflowIDReuse goes through only when
\* the row's last write version is the expected one, its state is COMPLETED and
\* its run ID is the expected one; ContinueAsNew only when the row's run ID is
\* the expected one; a call that fails writes neither the current-execution row
\* nor the snapshot.
C40_Step ==
    (sql'.seq # sql.seq /\ sql.current.exists) =>
       LET row == sql.current
           req == sql'.last
       IN /\ req.mode = "BrandNew" => req.err = WorkflowExecutionAlreadyStartedError
          /\ (req.mode = "WorkflowIDReuse" /\ req.err = NoErr) =>
                /\ row.lastWriteVersion = req.previousLastWriteVersion
                /\ row.state = "COMPLETED"
                /\ row.runID = req.previousRunID
          /\ (req.mode = "ContinueAsNew" /\ req.err = NoErr) => row.runID = req.previousRunID
          /\ req.err # NoErr =>
                /\ sql'.current = sql.current
                /\ sql'.executions = sql.executions

C40_CreateChecksCurrentRow == [][C40_Step]_vars

C40_Witness ==
    /\ sql.last.mode = "WorkflowIDReuse"
    /\ sql.last.err = CurrentWorkflowConditionFailedError
    /\ sql.last.previousRunID = sql.current.runID
    /\ sql.last.previousLastWriteVersion = sql.current.lastWriteVersion
    /\ sql.current.state = "RUNNING"
    /\ sql.last.runID \notin sql.executions
    /\ Cardinality(sql.executions) = 1

====
